---- MODULE Spec2Model ----
(***************************************************************************)
(* Bookmark repository (BookmarkService) of forethought-toolbox, and the   *)
(* popup that drives it through the useBookmarks hook.                     *)
(*                                                                         *)
(* The store is chrome.storage.local.  Every repository call is a          *)
(* read-entire-list / modify / write-entire-list sequence with an await    *)
(* between the read and the write.                                         *)
(***************************************************************************)
EXTENDS Integers, Sequences, FiniteSets, TLC

\* ------------------------------------------------------------- bounds
\* Longest stored list the repository specification starts from.
MaxNodes == 3
\* Largest clock value (Date.now(), in abstract time units).
MaxTime == 1

\* ------------------------------------------------------ values of fields
\* parentId: null  (the root)
Null == 0
\* a field that is undefined (lastAccessed / accessCount of a folder)
Undef == -1

Types == {"bookmark", "folder"}

\* ------------------------------------------------------------ variables
VARIABLES
  store,     \* chrome.storage.local, key 'bookmarks': the stored list
  now,       \* Date.now()
  nextId,    \* source of crypto.randomUUID(): ids never handed out before
  call,      \* the repository call in progress (its locals and position)
  before,    \* the stored list when the call in progress was made
  writes,    \* number of store writes the call in progress has made
  prev,      \* the previous completed call: its operation, arguments, result
  pop,       \* the Popup and its children: React state, refs, timers, the
             \* useBookmarks list, the hook calls in flight
  rec,       \* chrome.storage.local, keys 'lastDeletedBookmark', 'undoExpire'
  hist,      \* history of the popup run (what the properties speak about)
  cats,      \* chrome.storage.local, key 'bookmark_categories'
  settings,  \* SettingsModal: React state, the restore in progress
  catUi,     \* the category lists held by components, the category call
             \* in flight
  clicks     \* chrome.storage.local, key 'bookmarkClicks': title -> count

vars == <<store, now, nextId, call, before, writes, prev, pop, rec, hist, cats, settings, catUi, clicks>>

\* ------------------------------------------------------ helper operators
\* { ...a, ...b }
Overlay(a, b) ==
  [f \in (DOMAIN a) \cup (DOMAIN b) |-> IF f \in DOMAIN b THEN b[f] ELSE a[f]]

\* node.parentId, falsy (null) when the field is missing
ParentOf(n) == IF "parentId" \in DOMAIN n THEN n.parentId ELSE Null

\* node.type, or "undefined" when the field is missing
TypeOf(n) == IF "type" \in DOMAIN n THEN n.type ELSE "undefined"

Ids(list) == {list[k].id : k \in 1..Len(list)}

\* bookmarks.findIndex(b => b.id === id), 0 for -1
FindIndex(list, id) ==
  IF \E k \in 1..Len(list) : list[k].id = id
  THEN CHOOSE k \in 1..Len(list) :
         list[k].id = id /\ \A j \in 1..(k - 1) : list[j].id # id
  ELSE 0

\* bookmarks.filter(b => keep(b.id)) for keep = "id not in S"
RECURSIVE FilterOut(_, _)
FilterOut(list, S) ==
  IF list = <<>> THEN <<>>
  ELSE IF Head(list).id \in S THEN FilterOut(Tail(list), S)
       ELSE <<Head(list)>> \o FilterOut(Tail(list), S)

\* A stored bookmark / folder as addBookmarkOrFolder leaves it.
MkNode(id, type, parent, t) ==
  IF type = "bookmark"
  THEN [id |-> id, type |-> "bookmark", title |-> "Ex", url |-> "https://ex.com",
        parentId |-> parent, tags |-> <<>>, createdAt |-> t,
        lastAccessed |-> t, accessCount |-> 0]
  ELSE [id |-> id, type |-> "folder", title |-> "Ex",
        parentId |-> parent, createdAt |-> t,
        lastAccessed |-> Undef, accessCount |-> Undef]

\* ------------------------------------------------ BookmarkService (pure)
\* crypto.randomUUID(): an id that was never handed out
RandomUUID == nextId

\* Mutant of NewNode: lastAccessed and accessCount set whatever the type.
NewNodeStampsFolders(draft, id, t) ==
  Overlay(draft, [id |-> id, createdAt |-> t, lastAccessed |-> t, accessCount |-> 0])

\* addBookmarkOrFolder: newNode
NewNode(draft, id, t) ==
  Overlay(draft,
          [id |-> id, createdAt |-> t,
           lastAccessed |-> IF draft.type = "bookmark" THEN t ELSE Undef,
           accessCount |-> IF draft.type = "bookmark" THEN 0 ELSE Undef])

\* Mutant of RestoredNode: the spread comes last, { id, lastAccessed, ...updates }.
RestoredNodeSpreadLast(id, updates, t) ==
  Overlay([id |-> id,
           lastAccessed |-> IF TypeOf(updates) = "bookmark" THEN t ELSE Undef],
          updates)

\* updateBookmarkNode, index === -1: restoredNode
RestoredNode(id, updates, t) ==
  Overlay(Overlay(updates, [id |-> id]),
          [lastAccessed |-> IF TypeOf(updates) = "bookmark" THEN t ELSE Undef])

\* Mutant of UpdatedNode: the type tested is the merged node's.
UpdatedNodeByNewType(stored, updates, t) ==
  Overlay(Overlay(stored, updates),
          [lastAccessed |-> IF TypeOf(Overlay(stored, updates)) = "bookmark"
                             THEN t ELSE Undef])

\* updateBookmarkNode, index found: updatedNode
UpdatedNode(stored, updates, t) ==
  Overlay(Overlay(stored, updates),
          [lastAccessed |-> IF TypeOf(stored) = "bookmark" THEN t ELSE Undef])

\* One iteration of "for (const node of bookmarks)" in deleteBookmarkNode
\* on the call's locals.
ScanNode(c) ==
  LET node == c.bookmarks[c.i]
      hit  == ParentOf(node) # Null /\ ParentOf(node) \in c.toDelete
  IN [c EXCEPT !.toDelete = IF hit THEN @ \cup {node.id} ELSE @,
               !.found = IF hit THEN TRUE ELSE @,
               !.i = @ + 1]

\* "while (found)": repeat the scan
LoopAgain(c) == c.found

\* addBookmarkOrFolder, on the list read: newNode, updatedBookmarks
ReadAdd(c, bookmarks, id, t) ==
  LET newNode == NewNode(c.arg, id, t)
  IN [c EXCEPT !.bookmarks = bookmarks, !.t = t, !.ret = newNode,
               !.out = Append(bookmarks, newNode), !.pc = "set"]

\* updateBookmarkNode, on the list read: both branches up to the write
ReadUpdate(c, bookmarks, t) ==
  LET index == FindIndex(bookmarks, c.id)
  IN IF index = 0
     THEN LET restoredNode == RestoredNode(c.id, c.arg, t)
          IN [c EXCEPT !.bookmarks = bookmarks, !.t = t, !.ret = restoredNode,
                       !.out = Append(bookmarks, restoredNode), !.pc = "set"]
     ELSE LET updatedNode == UpdatedNode(bookmarks[index], c.arg, t)
          IN [c EXCEPT !.bookmarks = bookmarks, !.t = t, !.ret = updatedNode,
                       !.out = [bookmarks EXCEPT ![index] = updatedNode],
                       !.pc = "set"]

\* deleteBookmarkNode, on the list read: toDelete = new Set([id]); do { found = false
ReadDelete(c, bookmarks) ==
  [c EXCEPT !.bookmarks = bookmarks, !.toDelete = {c.id},
            !.found = FALSE, !.i = 1, !.pc = "scan"]

\* deleteBookmarkNode, at the end of a pass: } while (found); filter; changed
ScanEnd(c) ==
  IF LoopAgain(c)
  THEN [c EXCEPT !.found = FALSE, !.i = 1]
  ELSE LET updatedBookmarks == FilterOut(c.bookmarks, c.toDelete)
           changed == Len(updatedBookmarks) # Len(c.bookmarks)
       IN IF ~changed
          THEN [c EXCEPT !.ok = FALSE, !.pc = "done"]
          ELSE [c EXCEPT !.out = updatedBookmarks, !.ok = TRUE, !.pc = "set"]

\* ------------------------------------------------- the call in progress
NoArg == [none |-> TRUE]

\* op: the method; id, arg: its arguments; pc: where it stands; t: the
\* Date it read; bookmarks, toDelete, found, i: its locals; out: the list
\* it is about to write; ret / ok: the node / the boolean it returns.
Idle ==
  [op |-> "none", pc |-> "idle", id |-> Null, arg |-> NoArg, t |-> 0,
   bookmarks |-> <<>>, toDelete |-> {}, found |-> FALSE, i |-> 0,
   out |-> <<>>, ret |-> NoArg, ok |-> FALSE]

\* The previous completed call, and the stored list it was made on.
NoPrev == [op |-> "none", id |-> Null, ret |-> NoArg, ok |-> FALSE, list |-> <<>>]

\* getBookmarks(): Array.isArray(data) ? data : []
GetBookmarks == store

\* ===================================================================
\* The popup (Popup, BookmarkTable, BookmarkTree, useBookmarks)
\* ===================================================================
\* The popup's clock counts in units of the undo window (5000 ms).  A
\* storage call resolves in less than one unit.  Writes of the undo keys
\* are not awaited by the code and are taken to land when issued; reads and
\* writes of the 'bookmarks' key resolve in any order.

\* ------------------------------------------------------------- bounds
\* Largest clock value of the popup.
MaxClock == 2
\* Number of clicks (a button of the table, the tree, a toast or the view
\* bar; closing and reopening the popup) in a run of the popup.
MaxGestures == 3

\* Number of hook calls in flight at once.
MaxOps == 2

\* ------------------------------------------------- constants of the code
\* handleDeleteWithUndo: expire = Date.now() + 5000
SingleWindow == 1
\* UNDO_SECONDS * 1000
BatchWindow == 1

\* -------------------------------------------------------------- values
\* lastDeleted: null
NoNode == [none |-> TRUE]
\* undoBatch: null
NoBatch == [none |-> TRUE, bookmarks |-> <<>>, expire |-> 0]
\* neither undo key is stored
NoRec == [lastDeletedBookmark |-> NoNode, undoExpire |-> 0]
\* selectedFolderId: null (the table lists the root)
SelectedFolderId == Null
\* a node without category
NoCategory == Undef

\* What an awaited hook call goes on with when it resolves: kind names the
\* awaiting handler, rest / seen are the locals handleUndoBatch keeps.
Cont(kind) == [kind |-> kind, rest |-> <<>>, seen |-> 0]

\* A hook call that has just been made: the repository call's record, what
\* follows it, and the gesture it belongs to.
NewOp(op, id, arg, cont, act) ==
  [op |-> op, pc |-> "get", id |-> id, arg |-> arg, t |-> 0,
   bookmarks |-> <<>>, toDelete |-> {}, found |-> FALSE, i |-> 0,
   out |-> <<>>, ret |-> NoArg, ok |-> FALSE, cont |-> cont, act |-> act]

\* handleMerge is not running
NoMerge ==
  [pc |-> "idle", groups |-> <<>>, g |-> 0, sel |-> <<>>, opts |-> <<>>,
   safe |-> <<>>, bookmarks |-> <<>>, seen |-> 0, allToDelete |-> <<>>,
   d |-> 0, act |-> 0]

\* The popup while it is closed: the state its components are constructed
\* with, no mount effect started.
PopClosed ==
  [open |-> FALSE, bookmarks |-> <<>>, error |-> "null", mount |-> {},
   viewMode |-> "table",
   lastDeleted |-> NoNode, undoExpire |-> 0, undoHovered |-> FALSE,
   undoPausedAt |-> 0, undoBatch |-> NoBatch, undoTimeout |-> 0,
   over |-> FALSE, timers |-> {}, ops |-> {},
   duplicateGroups |-> <<>>, merge |-> NoMerge]

\* A run of handleMerge: the groups, selections, options and table list it
\* was clicked with, the stored list at the click, whether it began alone
\* (no hook call in flight, the popup's list equal to the stored list),
\* whether it has completed.
NoMerged ==
  [some |-> FALSE, done |-> FALSE, alone |-> FALSE, groups |-> <<>>,
   sel |-> <<>>, opts |-> <<>>, safe |-> <<>>, stored |-> <<>>]

\* The undo buffers at a reload / after the mount that followed it.
NoCarry ==
  [some |-> FALSE, lastDeleted |-> NoNode, undoExpire |-> 0,
   undoBatch |-> NoBatch, at |-> 0]

\* The pointer is not known to be over the single-undo toast; else the
\* time it entered at and the time left (expiry - clock) then.  resumed:
\* the pointer has left the toast, later than it entered and with time
\* left at the entry.
NoHover == [some |-> FALSE, at |-> 0, left |-> 0, resumed |-> FALSE]

\* gestures: user gestures so far; act, actNo, removed: the latest delete
\* action while its undo is owed, its number, the ids its deletes removed;
\* undoing: ids whose Undo was clicked since they were deleted; undone: ids
\* a finished Undo restored since the last delete action; expired: ids
\* whose single buffer expired without Undo (but for the buffers a running
\* handleMerge sets on the way to its batch buffer); missed: a countdown tick or a
\* mount at or after the expiry left the buffer or its record in place;
\* carried / remounted: the buffers at the last reload / after its mount;
\* prompts: the confirm dialogs the latest delete action showed; aimed: the
\* ids it was aimed at; merged: the latest handleMerge while its undo is
\* owed; superseded: the batch buffer the latest delete action found
\* pending; hovering: the latest entry of the pointer into the single-undo
\* toast, until it leaves.
NoHist ==
  [gestures |-> 0, act |-> "none", actNo |-> 0, removed |-> {},
   undoing |-> {}, undone |-> {}, expired |-> {}, missed |-> FALSE,
   carried |-> NoCarry, remounted |-> NoCarry, prompts |-> 0,
   aimed |-> {}, merged |-> NoMerged, superseded |-> NoBatch,
   hovering |-> NoHover]


\* updates of a handleRestore that has no list to write (has = the key
\* is set).
NoUpdate == [has |-> FALSE, list |-> <<>>]

NoUpdates == [bookmarks |-> NoUpdate, bookmark_categories |-> NoUpdate]

\* SettingsModal as constructed: conflictResolution 'newest', no restore
\* running, the conflict dialog hidden, no resolve function held, no
\* handleRestore awaiting the dialog.
SettingsClosed ==
  [conflictResolution |-> "newest", isRestoring |-> FALSE,
   showConflictModal |-> FALSE, resolveConflictPromise |-> "null",
   awaiting |-> NoUpdates]

\* bookmarkClicks: no title has been clicked (data.bookmarkClicks || {});
\* a title without entry counts 0.
NoClicks == [title \in {"Ex", "Ex2"} |-> 0]

\* No category call is running.
NoCatCall == [op |-> "none", pc |-> "idle", id |-> Null, list |-> <<>>, by |-> "none"]

\* BookmarkTable and CategoryManager before their mount effects: both
\* category lists empty.
NoCatUi ==
  [table |-> <<>>, manager |-> <<>>, mounted |-> FALSE, call |-> NoCatCall,
   before |-> [cats |-> <<>>, store |-> <<>>]]

\* ------------------------------------------------------ initial states
\* Parents are folders or missing (dangling); no node is its own parent.
WellFormed(list) ==
  \A k \in 1..Len(list) :
    /\ list[k].parentId # list[k].id
    /\ \A j \in 1..Len(list) :
         list[k].parentId = list[j].id => list[j].type = "folder"

ListsOfLen(n) ==
  { [k \in 1..n |-> MkNode(k, tp[k], par[k], 0)] :
      tp \in [1..n -> Types], par \in [1..n -> 0..(n + 1)] }

NodeLists ==
  { l \in UNION { ListsOfLen(n) : n \in 0..MaxNodes } : WellFormed(l) }

Init ==
  /\ store \in NodeLists
  /\ now = 0
  /\ nextId = MaxNodes + 2
  /\ call = Idle
  /\ before = <<>>
  /\ writes = 0
  /\ prev = NoPrev
  /\ pop = PopClosed
  /\ rec = NoRec
  /\ hist = NoHist
  /\ cats = <<>>
  /\ settings = SettingsClosed
  /\ catUi = NoCatUi
  /\ clicks = NoClicks

\* ------------------------------------------------------------ the caller
BookmarkDraft ==
  [type |-> "bookmark", title |-> "Ex", url |-> "https://ex.com",
   parentId |-> Null, tags |-> <<>>]

FolderDraft == [type |-> "folder", title |-> "Ex", parentId |-> Null]

Drafts == {BookmarkDraft, FolderDraft}

\* Partial<BookmarkNode>: a rename, a move to the root.
Partials == { [title |-> "Ex2"], [parentId |-> Null] }

\* The node stored under id in list (a snapshot of it), if any.
NodeOf(list, id) == list[FindIndex(list, id)]

\* What a caller passes to updateBookmarkNode(id, .): partial fields, or a
\* whole node object (the undo path, the edit dialog).
UpdateArgs(id) == Partials \cup { MkNode(id, tp, Null, 0) : tp \in Types }

Begin(op, id, arg) ==
  /\ call' = [Idle EXCEPT !.op = op, !.pc = "get", !.id = id, !.arg = arg]
  /\ before' = store
  /\ writes' = 0
  /\ UNCHANGED <<store, now, nextId, prev, pop, rec, hist, cats, settings, catUi, clicks>>

\* addBookmarkOrFolder(draft) is called.
CallAdd ==
  /\ call.pc = "idle" /\ prev.op = "none"
  /\ \E draft \in Drafts : Begin("add", Null, draft)

\* updateBookmarkNode(id, updates) is called.
CallUpdate ==
  /\ call.pc = "idle" /\ prev.op = "none"
  /\ \E id \in 1..(Len(store) + 1) : \E u \in UpdateArgs(id) :
       Begin("update", id, u)

\* deleteBookmarkNode(id) is called.
CallDelete ==
  /\ call.pc = "idle" /\ prev.op = "none"
  /\ \E id \in 1..(Len(store) + 1) : Begin("delete", id, NoArg)

\* add, then update of the node just added (spec scenario).
CallUpdateAfterAdd ==
  /\ call.pc = "idle" /\ prev.op = "add"
  /\ \E u \in Partials : Begin("update", prev.ret.id, u)

\* delete, then update(id, deletedNode): what Popup.handleUndo does.
CallUpdateAfterDelete ==
  /\ call.pc = "idle" /\ prev.op = "delete" /\ prev.ok
  /\ prev.id \in Ids(prev.list)
  /\ Begin("update", prev.id, NodeOf(prev.list, prev.id))

\* Time passes before the call reads the clock.
Tick ==
  /\ call.pc = "get" /\ call.op \in {"add", "update"}
  /\ now < MaxTime
  /\ now' = now + 1
  /\ UNCHANGED <<store, nextId, call, before, writes, prev, pop, rec, hist, cats, settings, catUi, clicks>>

\* ------------------------------------------------- BookmarkService steps
\* addBookmarkOrFolder: from the resolved read to the issued write.
AddRead ==
  /\ call.op = "add" /\ call.pc = "get"
  /\ call' = ReadAdd(call, GetBookmarks, RandomUUID, now)
  /\ nextId' = nextId + 1
  /\ UNCHANGED <<store, now, before, writes, prev, pop, rec, hist, cats, settings, catUi, clicks>>

\* updateBookmarkNode: from the resolved read to the issued write.
UpdateRead ==
  /\ call.op = "update" /\ call.pc = "get"
  /\ call' = ReadUpdate(call, GetBookmarks, now)
  /\ UNCHANGED <<store, now, nextId, before, writes, prev, pop, rec, hist, cats, settings, catUi, clicks>>

\* deleteBookmarkNode: the read resolves; toDelete = new Set([id]); do {
DeleteRead ==
  /\ call.op = "delete" /\ call.pc = "get"
  /\ call' = ReadDelete(call, GetBookmarks)
  /\ UNCHANGED <<store, now, nextId, before, writes, prev, pop, rec, hist, cats, settings, catUi, clicks>>

\* deleteBookmarkNode: one iteration of the for loop.
DeleteScan ==
  /\ call.pc = "scan" /\ call.i <= Len(call.bookmarks)
  /\ call' = ScanNode(call)
  /\ UNCHANGED <<store, now, nextId, before, writes, prev, pop, rec, hist, cats, settings, catUi, clicks>>

\* deleteBookmarkNode: } while (found); then filter, and return false or write.
DeleteScanEnd ==
  /\ call.pc = "scan" /\ call.i > Len(call.bookmarks)
  /\ call' = ScanEnd(call)
  /\ UNCHANGED <<store, now, nextId, before, writes, prev, pop, rec, hist, cats, settings, catUi, clicks>>

\* StorageService.set(STORAGE_KEY, list) completes; the method returns.
StoreSet ==
  /\ call.pc = "set"
  /\ store' = call.out
  /\ writes' = writes + 1
  /\ call' = [call EXCEPT !.pc = "done"]
  /\ UNCHANGED <<now, nextId, before, prev, pop, rec, hist, cats, settings, catUi, clicks>>

\* The caller takes the result.
Return ==
  /\ call.pc = "done"
  /\ prev' = [op |-> call.op, id |-> call.id, ret |-> call.ret, ok |-> call.ok,
              list |-> before]
  /\ call' = Idle
  /\ UNCHANGED <<store, now, nextId, before, writes, pop, rec, hist, cats, settings, catUi, clicks>>

Step ==
  \/ AddRead \/ UpdateRead \/ DeleteRead \/ DeleteScan \/ DeleteScanEnd
  \/ StoreSet \/ Return

Next ==
  \/ CallAdd \/ CallUpdate \/ CallDelete
  \/ CallUpdateAfterAdd \/ CallUpdateAfterDelete
  \/ Tick
  \/ AddRead \/ UpdateRead \/ DeleteRead \/ DeleteScan \/ DeleteScanEnd
  \/ StoreSet \/ Return

Spec == Init /\ [][Next]_vars

\* The event loop runs a call's continuation once its await has resolved.
FairSpec == Spec /\ WF_vars(Step)

\* ===================================================================
\* Properties of the repository (specifications Spec and FairSpec)
\* ===================================================================

\* The ids of the nodes whose parentId chain reaches a member of S,
\* together with S (least fixed point).
RECURSIVE Closure(_, _)
Closure(list, S) ==
  LET S2 == S \cup { list[k].id : k \in { j \in 1..Len(list) :
                         ParentOf(list[j]) # Null /\ ParentOf(list[j]) \in S } }
  IN IF S2 = S THEN S ELSE Closure(list, S2)

DeleteCalled == call.op = "delete" /\ call.pc = "get"
DeleteDone   == call.op = "delete" /\ call.pc = "done"
AddDone      == call.op = "add" /\ call.pc = "done"
UpdateFoundDone ==
  call.op = "update" /\ call.pc = "done" /\ call.id \in Ids(before)
UpdateMissingDone ==
  call.op = "update" /\ call.pc = "done" /\ call.id \notin Ids(before)

\* C1 (cascade delete): a deleteBookmarkNode(F.id) made for a stored folder F
\* completes, returning true, with the stored list equal to the previous
\* list minus F and all its descendants, the other nodes unchanged and in
\* the same order.
C1_CascadeDelete ==
  (DeleteCalled /\ call.id \in Ids(store)
                /\ TypeOf(NodeOf(store, call.id)) = "folder")
    ~> (DeleteDone /\ call.ok
          /\ store = FilterOut(before, Closure(before, {call.id})))

\* C2 (termination): every deleteBookmarkNode call returns.
C2_DeleteTerminates == DeleteCalled ~> DeleteDone

\* C10 (delete of a missing id): a deleteBookmarkNode(id) made for an id no
\* stored node has returns false, having written nothing and with the
\* stored list unchanged, also when a stored node's parentId equals id.
C10_DeleteMissing ==
  (DeleteCalled /\ call.id \notin Ids(store))
    ~> (DeleteDone /\ ~call.ok /\ writes = 0 /\ store = before)

\* The list is the previous list with one node appended.
AppendedOne == Len(store) = Len(before) + 1 /\ SubSeq(store, 1, Len(before)) = before

UpdateOverlays ==
  LET k   == FindIndex(before, call.id)
      old == before[k]
      r   == call.ret
  IN /\ DOMAIN r = DOMAIN old \cup DOMAIN call.arg
     /\ \A f \in DOMAIN call.arg \ {"lastAccessed"} : r[f] = call.arg[f]
     /\ \A f \in DOMAIN old \ (DOMAIN call.arg \cup {"lastAccessed"}) : r[f] = old[f]
     /\ r.lastAccessed = IF old.type = "bookmark" THEN call.t ELSE Undef
     /\ writes = 1
     /\ Len(store) = Len(before)
     /\ store[k] = r
     /\ \A j \in 1..Len(store) : j # k => store[j] = before[j]

AfterAddOfBookmark == prev.op = "add" /\ TypeOf(prev.ret) = "bookmark"

Bm(id, tags, categoryId, description) ==
  [id |-> id, type |-> "bookmark", title |-> "Ex", url |-> "https://ex.com",
   parentId |-> Null, tags |-> tags, categoryId |-> categoryId,
   description |-> description, createdAt |-> 0, lastAccessed |-> 0,
   accessCount |-> 0]

\* Two bookmarks of one url and two folders at the root, one folder empty,
\* the other holding a folder.
PopupList ==
  << Bm(1, <<"x", "y">>, NoCategory, "short"),
     Bm(2, <<"y", "z">>, 7, "a longer one"),
     MkNode(3, "folder", Null, 0),
     MkNode(4, "folder", Null, 0),
     MkNode(5, "folder", 4, 0) >>

\* --------------------------------------------------------- useBookmarks
\* updateBookmarkNode: setBookmarks(prev => exists ? map : append)
HookUpdated(list, id, updated) ==
  IF id \in Ids(list)
  THEN [k \in 1..Len(list) |-> IF list[k].id = id THEN updated ELSE list[k]]
  ELSE Append(list, updated)

\* deleteBookmarkNode: setBookmarks(prev => prev.filter(b => b.id !== id &&
\* b.parentId !== id))
HookDeleted(list, id) ==
  SelectSeq(list, LAMBDA b : b.id # id /\ ParentOf(b) # id)

\* What the hook does with its list when the awaited repository call o
\* has resolved.
HookAfter(list, o) ==
  IF o.op = "add" THEN Append(list, o.ret)
  ELSE IF o.op = "update" THEN HookUpdated(list, o.id, o.ret)
  ELSE IF o.op = "delete" /\ o.ok THEN HookDeleted(list, o.id)
  ELSE list

\* ------------------------------------------------------- BookmarkTable
\* Popup: bookmarks.filter(b => b.parentId === selectedFolderId && b.type === 'bookmark')
SafeBookmarks(bookmarks) ==
  SelectSeq(bookmarks, LAMBDA b : "parentId" \in DOMAIN b
                                   /\ b.parentId = SelectedFolderId
                                   /\ TypeOf(b) = "bookmark")

\* bm.url || ''
UrlOf(b) == IF "url" \in DOMAIN b THEN b.url ELSE ""

\* Array.from(new Set(seq)): first occurrences, in order
RECURSIVE Dedupe(_)
Dedupe(seq) ==
  IF seq = <<>> THEN <<>>
  ELSE LET init == Dedupe(SubSeq(seq, 1, Len(seq) - 1))
           last == seq[Len(seq)]
       IN IF \E k \in 1..Len(init) : init[k] = last THEN init
          ELSE Append(init, last)

\* Mutant of FindDuplicates: every url forms a group.
FindDuplicatesWithSingles(safe) ==
  LET urls == Dedupe([k \in 1..Len(safe) |-> UrlOf(safe[k])])
      idsOf(u) == LET same == SelectSeq(safe, LAMBDA b : UrlOf(b) = u)
                  IN [k \in 1..Len(same) |-> same[k].id]
  IN [k \in 1..Len(urls) |-> [url |-> urls[k], ids |-> idsOf(urls[k])]]

\* findDuplicates: groups = the urls held by more than one listed bookmark,
\* in order of first occurrence, each with the ids holding it
FindDuplicates(safe) ==
  LET urls == Dedupe([k \in 1..Len(safe) |-> UrlOf(safe[k])])
      idsOf(u) == LET same == SelectSeq(safe, LAMBDA b : UrlOf(b) = u)
                  IN [k \in 1..Len(same) |-> same[k].id]
      all == [k \in 1..Len(urls) |-> [url |-> urls[k], ids |-> idsOf(urls[k])]]
  IN SelectSeq(all, LAMBDA grp : Len(grp.ids) > 1)

\* findDuplicates: dups = the ids of all groups, flattened; a row or card is
\* highlighted when duplicates.includes(bookmark.id)
RECURSIVE Duplicates(_)
Duplicates(groups) ==
  IF groups = <<>> THEN <<>> ELSE Head(groups).ids \o Duplicates(Tail(groups))

\* b.tags || []
TagsOf(b) == IF "tags" \in DOMAIN b THEN b.tags ELSE <<>>

\* b.categoryId, undefined when missing
CategoryOf(b) == IF "categoryId" \in DOMAIN b THEN b.categoryId ELSE NoCategory

\* b.description || ''
DescriptionOf(b) == IF "description" \in DOMAIN b THEN b.description ELSE ""

\* Mutant of FlatTags: the tags of the first member only.
FlatTagsOfFirst(nodes) == IF nodes = <<>> THEN <<>> ELSE TagsOf(Head(nodes))

\* bookmarksInGroup.flatMap(b => b.tags || [])
RECURSIVE FlatTags(_)
FlatTags(nodes) ==
  IF nodes = <<>> THEN <<>> ELSE TagsOf(Head(nodes)) \o FlatTags(Tail(nodes))

\* bookmarksInGroup.map(b => b.categoryId).find(Boolean)
FirstCategory(nodes) ==
  IF \E k \in 1..Len(nodes) : CategoryOf(nodes[k]) # NoCategory
  THEN CategoryOf(nodes[CHOOSE k \in 1..Len(nodes) :
                     /\ CategoryOf(nodes[k]) # NoCategory
                     /\ \A j \in 1..(k - 1) : CategoryOf(nodes[j]) = NoCategory])
  ELSE NoCategory

\* Mutant of LongestDescription: the last of the longest.
LongestDescriptionLast(nodes) ==
  DescriptionOf(nodes[CHOOSE k \in 1..Len(nodes) :
     /\ \A j \in 1..Len(nodes) :
          Len(DescriptionOf(nodes[j])) <= Len(DescriptionOf(nodes[k]))
     /\ \A j \in (k + 1)..Len(nodes) :
          Len(DescriptionOf(nodes[j])) < Len(DescriptionOf(nodes[k]))])

\* descriptions.sort((a, b) => b.length - a.length)[0]: the first of the longest
LongestDescription(nodes) ==
  DescriptionOf(nodes[CHOOSE k \in 1..Len(nodes) :
     /\ \A j \in 1..Len(nodes) :
          Len(DescriptionOf(nodes[j])) <= Len(DescriptionOf(nodes[k]))
     /\ \A j \in 1..(k - 1) :
          Len(DescriptionOf(nodes[j])) < Len(DescriptionOf(nodes[k]))])

\* group.ids.map(id => safeBookmarks.find(b => b.id === id)).filter(b => !!b)
BookmarksInGroup(safe, ids) ==
  LET have == SelectSeq(ids, LAMBDA id : id \in Ids(safe))
  IN [k \in 1..Len(have) |-> NodeOf(safe, have[k])]

\* handleMerge: merged, for the group's nodes, the id kept and the options
Merged(nodes, toKeepId, opts) ==
  LET kept == IF toKeepId \in Ids(nodes) THEN NodeOf(nodes, toKeepId)
              ELSE << >>
      m1 == IF opts.mergeTags THEN Overlay(kept, [tags |-> Dedupe(FlatTags(nodes))])
            ELSE kept
      m2 == IF opts.mergeCategories /\ FirstCategory(nodes) # NoCategory
            THEN Overlay(m1, [categoryId |-> FirstCategory(nodes)])
            ELSE m1
      m3 == IF opts.mergeDescriptions /\ LongestDescription(nodes) # ""
            THEN Overlay(m2, [description |-> LongestDescription(nodes)])
            ELSE m2
  IN m3

\* ---------------------------------------------------------------- Popup
\* The single-delete toast is rendered: lastDeleted && !undoBatch
ToastVisible(p) == p.lastDeleted # NoNode /\ p.undoBatch = NoBatch

\* The batch toast is rendered: undoBatch && !lastDeleted
BatchToastVisible(p) == p.undoBatch # NoBatch /\ p.lastDeleted = NoNode

\* The pointer cannot rest on a toast that is not rendered.
Norm(p) == IF ToastVisible(p) THEN p ELSE [p EXCEPT !.over = FALSE]

\* Mutant of TickExpired: secondsLeft < 0.
TickExpiredLate(expire, t) == expire < t

\* countdown: Math.ceil((undoExpire - now) / 1000) <= 0
TickExpired(expire, t) == expire <= t

\* mount: data.lastDeletedBookmark && data.undoExpire && data.undoExpire > now
Rehydrates(r, t) ==
  r.lastDeletedBookmark # NoNode /\ r.undoExpire # 0 /\ r.undoExpire > t

\* Mutant of HandleDeleteWithUndo: setUndoBatch(null) is left out.
HandleDeleteWithUndoBesideBatch(w, bookmarks, undoTimeout, id, t, cont, act) ==
  IF id \notin Ids(bookmarks) THEN w
  ELSE LET bm == NodeOf(bookmarks, id)
           expire == t + SingleWindow
       IN [pop |-> [w.pop EXCEPT
                      !.timers = @ \ {undoTimeout},
                      !.lastDeleted = bm,
                      !.undoExpire = expire,
                      !.ops = @ \cup {NewOp("delete", id, NoArg, cont, act)}],
           rec |-> [lastDeletedBookmark |-> bm, undoExpire |-> expire]]

\* Mutant of HandleDeleteWithUndo: the batch buffer and its timeout are
\* left as they are.
HandleDeleteWithUndoOnly(w, bookmarks, undoTimeout, id, t, cont, act) ==
  IF id \notin Ids(bookmarks) THEN w
  ELSE LET bm == NodeOf(bookmarks, id)
           expire == t + SingleWindow
       IN [pop |-> [w.pop EXCEPT
                      !.lastDeleted = bm,
                      !.undoExpire = expire,
                      !.ops = @ \cup {NewOp("delete", id, NoArg, cont, act)}],
           rec |-> [lastDeletedBookmark |-> bm, undoExpire |-> expire]]

\* handleDeleteWithUndo(id), confirmed or silent, in a render whose
\* closure holds bookmarks and undoTimeout; w = [pop, rec] at the call.
HandleDeleteWithUndo(w, bookmarks, undoTimeout, id, t, cont, act) ==
  IF id \notin Ids(bookmarks) THEN w
  ELSE LET bm == NodeOf(bookmarks, id)
           expire == t + SingleWindow
       IN [pop |-> [w.pop EXCEPT
                      !.undoBatch = NoBatch,
                      !.timers = @ \ {undoTimeout},
                      !.lastDeleted = bm,
                      !.undoExpire = expire,
                      !.ops = @ \cup {NewOp("delete", id, NoArg, cont, act)}],
           rec |-> [lastDeletedBookmark |-> bm, undoExpire |-> expire]]

\* selectedIds.forEach(id => onDelete(id))
RECURSIVE ForEachDelete(_, _, _, _, _, _)
ForEachDelete(w, bookmarks, undoTimeout, ids, t, act) ==
  IF ids = <<>> THEN w
  ELSE ForEachDelete(
         HandleDeleteWithUndo(w, bookmarks, undoTimeout, Head(ids), t,
                              Cont("none"), act),
         bookmarks, undoTimeout, Tail(ids), t, act)

\* Mutant of HandleBatchDeleteWithUndo: the single-delete buffer and its
\* record are left as they are.
HandleBatchDeleteWithUndoOnly(w, bookmarks, undoTimeout, t) ==
  LET expire == t + BatchWindow
  IN [w EXCEPT !.pop.undoBatch = [none |-> FALSE, bookmarks |-> bookmarks,
                                  expire |-> expire],
               !.pop.timers = (@ \ {undoTimeout}) \cup {expire},
               !.pop.undoTimeout = expire]

\* Popup.handleBatchDeleteWithUndo(bookmarks), in a render whose closure
\* holds undoTimeout
HandleBatchDeleteWithUndo(w, bookmarks, undoTimeout, t) ==
  LET expire == t + BatchWindow
  IN [pop |-> [w.pop EXCEPT
                 !.lastDeleted = NoNode,
                 !.undoExpire = 0,
                 !.undoBatch = [none |-> FALSE, bookmarks |-> bookmarks,
                                expire |-> expire],
                 !.timers = (@ \ {undoTimeout}) \cup {expire},
                 !.undoTimeout = expire],
      rec |-> NoRec]

\* handleUndo, after the awaited update: the buffer and the record go
AfterUndo(w) ==
  [pop |-> [w.pop EXCEPT !.lastDeleted = NoNode, !.undoExpire = 0],
   rec |-> NoRec]

\* handleUndoBatch: the next awaited update of the loop, or its end
UndoBatchLoop(w, rest, seen, act) ==
  IF rest = <<>>
  THEN [w EXCEPT !.pop.undoBatch = NoBatch, !.pop.timers = @ \ {seen}]
  ELSE [w EXCEPT !.pop.ops = @ \cup
          {NewOp("update", Head(rest).id, Head(rest),
                 [kind |-> "undoBatch", rest |-> Tail(rest), seen |-> seen],
                 act)}]

\* ----------------------------------------- handleMerge (BookmarkTable)
\* table handleBatchDeleteWithUndo: the next awaited onDelete(id, true) of
\* the loop, or after the loop onBatchDeleteWithUndo(toDelete) and the
\* clean-up of the merge state
RECURSIVE MergeDeletes(_, _, _)
MergeDeletes(w, m, t) ==
  IF m.d > Len(m.allToDelete)
  THEN LET toDelete ==
             SelectSeq(m.safe, LAMBDA b :
               \E k \in 1..Len(m.allToDelete) : m.allToDelete[k] = b.id)
           w2 == HandleBatchDeleteWithUndo(w, toDelete, m.seen, t)
       IN [w2 EXCEPT !.pop.merge = NoMerge, !.pop.duplicateGroups = <<>>]
  ELSE LET id == m.allToDelete[m.d]
       IN IF id \notin Ids(m.bookmarks)
          THEN MergeDeletes(w, [m EXCEPT !.d = @ + 1], t)
          ELSE [HandleDeleteWithUndo(w, m.bookmarks, m.seen, id, t,
                                     Cont("merge"), m.act)
                  EXCEPT !.pop.merge = [m EXCEPT !.pc = "delete"]]

\* handleMerge: the loop over duplicateGroups up to the next awaited
\* onUpdate(toKeepId, merged), or past the loop
RECURSIVE MergeGroups(_, _, _)
MergeGroups(w, m, t) ==
  IF m.g > Len(m.groups)
  THEN MergeDeletes(w, [m EXCEPT !.d = 1], t)
  ELSE LET group    == m.groups[m.g]
           toKeepId == m.sel[m.g]
           inGroup  == BookmarksInGroup(m.safe, group.ids)
       IN IF Len(inGroup) < 2
          THEN MergeGroups(w, [m EXCEPT !.g = @ + 1], t)
          ELSE [w EXCEPT
                  !.pop.ops = @ \cup
                    {NewOp("update", toKeepId, Merged(inGroup, toKeepId, m.opts),
                           Cont("merge"), m.act)},
                  !.pop.merge = [m EXCEPT !.pc = "update"]]

\* handleMerge resumes after an awaited call
MergeResume(w, t) ==
  LET m == w.pop.merge
  IN IF m.pc = "update"
     THEN LET group    == m.groups[m.g]
              toDelete == SelectSeq(group.ids, LAMBDA id : id # m.sel[m.g])
          IN MergeGroups(w, [m EXCEPT !.allToDelete = @ \o toDelete,
                                      !.g = @ + 1], t)
     ELSE MergeDeletes(w, [m EXCEPT !.d = @ + 1], t)

\* The hook call o has resolved: the hook updates its list, and the handler
\* that awaited the call goes on.
AfterOp(w, o, t) ==
  IF o.cont.kind = "orphan" THEN w
  ELSE LET w1 == [w EXCEPT !.pop.bookmarks = HookAfter(@, o)]
       IN CASE o.cont.kind = "undo" -> AfterUndo(w1)
            [] o.cont.kind = "undoBatch" ->
                 UndoBatchLoop(w1, o.cont.rest, o.cont.seen, o.act)
            [] o.cont.kind = "merge" -> MergeResume(w1, t)
            [] OTHER -> w1

\* ------------------------------------------------------- popup actions
W == [pop |-> pop, rec |-> rec]

Commit(w) == pop' = Norm(w.pop) /\ rec' = w.rec

\* The thread is not inside deleteBookmarkNode's loop.
Quiet == \A o \in pop.ops : o.pc # "scan"

\* The popup is open and its thread is free.
Ready == pop.open /\ Quiet

CanGesture == Ready /\ hist.gestures < MaxGestures

\* n more hook calls may be made.
Room(n) == Cardinality(pop.ops) + n <= MaxOps

\* The table can be clicked: it is rendered and the merge modal is not
\* running a merge over it.
TableUp == pop.viewMode = "table" /\ pop.merge.pc = "idle"

\* The window.confirm dialogs a delete action shows: the table's and the
\* popup's for a row, handleBulkDelete's and the popup's for each selected
\* row, handleMerge's one (its deletes are silent), the tree's one.
Prompts(kind, n) ==
  CASE kind = "single" -> 2
    [] kind = "bulk"   -> 1 + n
    [] kind = "merge"  -> 1
    [] OTHER           -> 1

\* hist after a delete action of the given kind aimed at ids
Deleting(kind, ids) ==
  [hist EXCEPT !.gestures = @ + 1, !.act = kind, !.actNo = hist.gestures + 1,
               !.removed = {}, !.undone = {}, !.undoing = @ \ ids,
               !.expired = @ \ ids, !.carried = NoCarry,
               !.prompts = Prompts(kind, Cardinality(ids)),
               !.aimed = ids, !.merged = NoMerged,
               !.superseded = pop.undoBatch]

\* hist when the undo of the latest delete action is no longer owed
Settled(h) ==
  [h EXCEPT !.act = "none", !.removed = {}, !.prompts = 0, !.aimed = {},
            !.merged = NoMerged, !.superseded = NoBatch]

PopupRepoUnchanged == UNCHANGED <<nextId, call, before, writes, prev, cats, settings, catUi, clicks>>

\* The trash button of a table row: handleDelete(id), both confirms accepted.
PClickDelete ==
  /\ CanGesture /\ Room(1) /\ TableUp
  /\ \E id \in Ids(SafeBookmarks(pop.bookmarks)) :
       /\ Commit(HandleDeleteWithUndo(W, pop.bookmarks, pop.undoTimeout, id,
                                      now, Cont("none"), hist.gestures + 1))
       /\ hist' = Deleting("single", {id})
  /\ UNCHANGED <<store, now>> /\ PopupRepoUnchanged

\* handleBulkDelete with two rows selected, in either order.
PBulkDelete ==
  /\ CanGesture /\ Room(2) /\ TableUp
  /\ \E a, b \in Ids(SafeBookmarks(pop.bookmarks)) :
       /\ a # b
       /\ Commit(ForEachDelete(W, pop.bookmarks, pop.undoTimeout, <<a, b>>,
                               now, hist.gestures + 1))
       /\ hist' = Deleting("bulk", {a, b})
  /\ UNCHANGED <<store, now>> /\ PopupRepoUnchanged

\* BookmarkTree: handleDelete(id), confirmed -> onDeleteFolder(id).
PDeleteFolder ==
  /\ CanGesture /\ Room(1) /\ pop.viewMode = "tree"
  /\ \E k \in 1..Len(pop.bookmarks) :
       /\ TypeOf(pop.bookmarks[k]) = "folder"
       /\ pop' = [pop EXCEPT !.ops = @ \cup
                    {NewOp("delete", pop.bookmarks[k].id, NoArg, Cont("none"),
                           hist.gestures + 1)}]
       /\ hist' = Deleting("folder", {pop.bookmarks[k].id})
  /\ UNCHANGED <<store, now, rec>> /\ PopupRepoUnchanged

\* The view buttons: the table is unmounted in tree view and mounted anew
\* in table view.
PSwitchView ==
  /\ CanGesture /\ pop.merge.pc = "idle"
  /\ pop' = [pop EXCEPT !.viewMode = IF @ = "table" THEN "tree" ELSE "table",
                        !.duplicateGroups = <<>>]
  /\ hist' = [hist EXCEPT !.gestures = @ + 1]
  /\ UNCHANGED <<store, now, rec>> /\ PopupRepoUnchanged

\* The Find Duplicates button.
PFindDuplicates ==
  /\ CanGesture /\ TableUp
  /\ pop' = [pop EXCEPT !.duplicateGroups =
                          FindDuplicates(SafeBookmarks(pop.bookmarks))]
  /\ hist' = [hist EXCEPT !.gestures = @ + 1]
  /\ UNCHANGED <<store, now, rec>> /\ PopupRepoUnchanged

\* The merge options ticked in the modal.
MergeOptions ==
  { [mergeTags |-> b, mergeCategories |-> b, mergeDescriptions |-> b] :
      b \in BOOLEAN }

\* Merge Selected, confirmed, with a bookmark to keep chosen in each group.
PMerge ==
  /\ CanGesture /\ Room(1) /\ TableUp /\ pop.duplicateGroups # <<>>
  /\ LET groups == pop.duplicateGroups
         safe   == SafeBookmarks(pop.bookmarks)
     IN \E opts \in MergeOptions :
        \E sel \in [1..Len(groups) ->
                      UNION { {groups[g].ids[k] : k \in 1..Len(groups[g].ids)} :
                              g \in 1..Len(groups) }] :
          /\ \A g \in 1..Len(groups) :
               \E k \in 1..Len(groups[g].ids) : groups[g].ids[k] = sel[g]
          /\ Commit(MergeGroups(W,
               [NoMerge EXCEPT !.groups = groups, !.g = 1, !.sel = sel,
                               !.opts = opts, !.safe = safe,
                               !.bookmarks = pop.bookmarks,
                               !.seen = pop.undoTimeout,
                               !.act = hist.gestures + 1], now))
          /\ hist' = [Deleting("merge", Ids(safe)) EXCEPT
                        !.merged = [some |-> TRUE, done |-> pop'.merge.pc = "idle",
                                    alone |-> pop.ops = {} /\ pop.bookmarks = store,
                                    groups |-> groups,
                                    sel |-> sel, opts |-> opts, safe |-> safe,
                                    stored |-> store]]
  /\ UNCHANGED <<store, now>> /\ PopupRepoUnchanged

\* Undo of the single-delete toast: handleUndo up to its await.
PUndo ==
  /\ CanGesture /\ Room(1) /\ ToastVisible(pop)
  /\ pop' = [pop EXCEPT !.ops = @ \cup
               {NewOp("update", pop.lastDeleted.id, pop.lastDeleted,
                      Cont("undo"), hist.gestures + 1)}]
  /\ hist' = [Settled(hist) EXCEPT !.gestures = @ + 1,
                                   !.undoing = @ \cup {pop.lastDeleted.id}]
  /\ UNCHANGED <<store, now, rec>> /\ PopupRepoUnchanged

\* Undo of the batch toast: handleUndoBatch up to its first await.
PUndoBatch ==
  /\ CanGesture /\ Room(1) /\ BatchToastVisible(pop)
  /\ Commit(UndoBatchLoop(W, pop.undoBatch.bookmarks, pop.undoTimeout,
                          hist.gestures + 1))
  /\ hist' = [Settled(hist) EXCEPT !.gestures = @ + 1]
  /\ UNCHANGED <<store, now>> /\ PopupRepoUnchanged

\* The 200 ms interval of the single countdown (the seconds shown are not
\* part of the state).
PTick ==
  /\ Ready
  /\ pop.lastDeleted # NoNode /\ ~pop.undoHovered /\ pop.undoExpire # 0
  /\ IF TickExpired(pop.undoExpire, now)
     THEN Commit([pop |-> [pop EXCEPT !.lastDeleted = NoNode, !.undoExpire = 0],
                  rec |-> NoRec])
     ELSE UNCHANGED <<pop, rec>>
  /\ LET due == pop.undoExpire <= now
         id  == pop.lastDeleted.id
         h   == IF pop'.lastDeleted = NoNode THEN Settled(hist) ELSE hist
     IN hist' = [h EXCEPT
          !.missed = @ \/ (due /\ (pop'.lastDeleted # NoNode \/ rec' # NoRec)),
          !.expired = IF due /\ id \notin hist.undoing /\ pop.merge.pc = "idle"
                      THEN @ \cup {id} ELSE @]
  /\ UNCHANGED <<store, now>> /\ PopupRepoUnchanged

\* The 200 ms interval of the batch countdown, once the batch has expired.
PBatchTick ==
  /\ Ready
  /\ pop.undoBatch # NoBatch /\ TickExpired(pop.undoBatch.expire, now)
  /\ pop' = Norm([pop EXCEPT !.undoBatch = NoBatch,
                             !.timers = @ \ {pop.undoTimeout}])
  /\ hist' = Settled(hist)
  /\ UNCHANGED <<store, now, rec>> /\ PopupRepoUnchanged

\* A timeout set by handleBatchDeleteWithUndo fires: setUndoBatch(null).
PBatchTimeout ==
  /\ Ready
  /\ \E due \in pop.timers :
       /\ due <= now
       /\ pop' = Norm([pop EXCEPT !.undoBatch = NoBatch, !.timers = @ \ {due}])
  /\ hist' = IF pop.undoBatch # NoBatch THEN Settled(hist) ELSE hist
  /\ UNCHANGED <<store, now, rec>> /\ PopupRepoUnchanged

\* handleUndoMouseEnter
PMouseEnter ==
  /\ Ready /\ ToastVisible(pop) /\ ~pop.over
  /\ pop' = [pop EXCEPT !.over = TRUE, !.undoHovered = TRUE,
                        !.undoPausedAt = IF pop.undoExpire # 0
                                         THEN pop.undoExpire - now ELSE @]
  /\ hist' = [hist EXCEPT !.hovering = [some |-> TRUE, at |-> now,
                                        left |-> pop.undoExpire - now,
                                        resumed |-> FALSE]]
  /\ UNCHANGED <<store, now, rec, cats, settings, catUi, clicks>> /\ PopupRepoUnchanged

\* Mutant of PMouseLeave: the expiry is not moved.
PMouseLeaveOnly ==
  /\ Ready /\ pop.over
  /\ pop' = [pop EXCEPT !.over = FALSE, !.undoHovered = FALSE, !.undoPausedAt = 0]
  /\ rec' = rec
  /\ hist' = [hist EXCEPT !.hovering =
                 [NoHover EXCEPT !.resumed = /\ hist.hovering.at < now
                                             /\ hist.hovering.left # 0]]
  /\ UNCHANGED <<store, now, cats, settings, catUi, clicks>> /\ PopupRepoUnchanged

\* handleUndoMouseLeave
PMouseLeave ==
  /\ Ready /\ pop.over
  /\ IF pop.undoPausedAt # 0 /\ pop.lastDeleted # NoNode
     THEN LET newExpire == now + pop.undoPausedAt
          IN /\ pop' = [pop EXCEPT !.over = FALSE, !.undoHovered = FALSE,
                                   !.undoExpire = newExpire,
                                   !.undoPausedAt = 0]
             /\ rec' = [rec EXCEPT !.undoExpire = newExpire]
     ELSE /\ pop' = [pop EXCEPT !.over = FALSE, !.undoHovered = FALSE]
          /\ rec' = rec
  /\ hist' = [hist EXCEPT !.hovering =
                 [NoHover EXCEPT !.resumed = /\ hist.hovering.at < now
                                             /\ hist.hovering.left # 0]]
  /\ UNCHANGED <<store, now, cats, settings, catUi, clicks>> /\ PopupRepoUnchanged

\* Something is waiting for the clock: a buffer, a timeout, a stored expiry.
Timed ==
  \/ pop.lastDeleted # NoNode \/ pop.undoBatch # NoBatch
  \/ pop.timers # {} \/ rec # NoRec

\* Time passes, while no storage call is outstanding.  (While nothing waits
\* for the clock a run is the same run started later.)
PAdvance ==
  /\ now < MaxClock
  /\ pop.ops = {} /\ pop.mount = {} /\ pop.merge.pc = "idle" /\ Timed
  /\ now' = now + 1
  /\ UNCHANGED <<store, pop, rec, hist, cats, settings, catUi, clicks>> /\ PopupRepoUnchanged

\* The popup is opened: Popup and useBookmarks mount, their effects issue
\* their reads of the store.
POpen ==
  /\ ~pop.open
  /\ pop' = [pop EXCEPT !.open = TRUE, !.mount = {"fetchBookmarks", "rehydrate"}]
  /\ UNCHANGED <<store, now, rec, hist, cats, settings, catUi, clicks>> /\ PopupRepoUnchanged

\* The popup is closed (to be opened again): React state, refs and timers
\* are gone, awaiting handlers never resume, writes already issued still
\* land.
PReload ==
  /\ pop.open /\ hist.gestures < MaxGestures
  /\ pop' = [PopClosed EXCEPT
               !.viewMode = pop.viewMode,
               !.ops = { [o EXCEPT !.cont = Cont("orphan")] :
                           o \in { q \in pop.ops : q.pc = "set" } }]
  /\ hist' = [Settled(hist) EXCEPT
               !.gestures = @ + 1,
               !.carried = [some |-> TRUE, lastDeleted |-> pop.lastDeleted,
                            undoExpire |-> pop.undoExpire,
                            undoBatch |-> pop.undoBatch, at |-> now],
               !.remounted = NoCarry]
  /\ UNCHANGED <<store, now, rec>> /\ PopupRepoUnchanged

\* useBookmarks, mount effect: fetchBookmarks resolves.
PMountFetch ==
  /\ Quiet /\ "fetchBookmarks" \in pop.mount
  /\ pop' = [pop EXCEPT !.bookmarks = store, !.mount = @ \ {"fetchBookmarks"}]
  /\ UNCHANGED <<store, now, rec, hist, cats, settings, catUi, clicks>> /\ PopupRepoUnchanged

\* Popup, mount effect: the callback of get(['lastDeletedBookmark', 'undoExpire']).
PMountRehydrate ==
  /\ Quiet /\ "rehydrate" \in pop.mount
  /\ LET both == rec.lastDeletedBookmark # NoNode /\ rec.undoExpire # 0
     IN /\ IF Rehydrates(rec, now)
           THEN /\ pop' = Norm([pop EXCEPT !.lastDeleted = rec.lastDeletedBookmark,
                                           !.undoExpire = rec.undoExpire,
                                           !.mount = @ \ {"rehydrate"}])
                /\ rec' = rec
           ELSE /\ pop' = [pop EXCEPT !.mount = @ \ {"rehydrate"}]
                /\ rec' = IF both THEN NoRec ELSE rec
        /\ LET due == both /\ rec.undoExpire <= now
           IN hist' = [hist EXCEPT
                !.missed = @ \/ (due /\ (pop'.lastDeleted # NoNode \/ rec' # NoRec)),
                !.expired = IF due /\ rec.lastDeletedBookmark.id \notin hist.undoing
                            THEN @ \cup {rec.lastDeletedBookmark.id} ELSE @,
                !.remounted = [some |-> TRUE, lastDeleted |-> pop'.lastDeleted,
                               undoExpire |-> pop'.undoExpire,
                               undoBatch |-> pop'.undoBatch, at |-> now]]
  /\ UNCHANGED <<store, now>> /\ PopupRepoUnchanged

\* deleteBookmarkNode: the for loop from node i to the end of the list
RECURSIVE ScanPass(_)
ScanPass(c) == IF c.i > Len(c.bookmarks) THEN c ELSE ScanPass(ScanNode(c))

\* A hook call's read of the list resolves; the call runs on to its write
\* (update), or through the first pass of its loop (delete).
POpRead ==
  /\ Quiet
  /\ \E o \in pop.ops :
       /\ o.pc = "get"
       /\ pop' = [pop EXCEPT !.ops = (@ \ {o}) \cup
                    {IF o.op = "update" THEN ReadUpdate(o, store, now)
                     ELSE ScanEnd(ScanPass(ReadDelete(o, store)))}]
  /\ UNCHANGED <<store, now, rec, hist, cats, settings, catUi, clicks>> /\ PopupRepoUnchanged

\* deleteBookmarkNode inside a hook call: one more pass of the do-while
\* loop.  Nothing else runs on the thread meanwhile.
POpScan ==
  /\ \E o \in pop.ops :
       /\ o.pc = "scan"
       /\ pop' = [pop EXCEPT !.ops = (@ \ {o}) \cup {ScanEnd(ScanPass(o))}]
  /\ UNCHANGED <<store, now, rec, hist, cats, settings, catUi, clicks>> /\ PopupRepoUnchanged

\* A hook call's write lands (or the call had nothing to write) and the
\* call resolves: the hook and the awaiting handler go on.
POpSettle ==
  /\ Quiet
  /\ \E o \in pop.ops :
       /\ o.pc \in {"set", "done"}
       /\ store' = IF o.pc = "set" THEN o.out ELSE store
       /\ Commit(AfterOp([W EXCEPT !.pop.ops = @ \ {o}], o, now))
       /\ LET again == { q.id : q \in { n \in pop'.ops \ pop.ops : n.op = "delete" } }
          IN hist' = [hist EXCEPT
               !.removed = IF /\ o.op = "delete" /\ o.pc = "set"
                              /\ hist.act # "none" /\ o.act = hist.actNo
                           THEN @ \cup (o.toDelete \cap Ids(o.bookmarks)) ELSE @,
               !.undone = IF o.cont.kind = "undo" /\ o.act > hist.actNo
                          THEN @ \cup {o.id} ELSE @,
               !.undoing = @ \ again,
               !.expired = @ \ again,
               !.merged.done = @ \/ (pop.merge.pc # "idle" /\ pop'.merge.pc = "idle")]
  /\ UNCHANGED now /\ PopupRepoUnchanged

PopupInit ==
  /\ store = PopupList
  /\ now = 0
  /\ nextId = Len(PopupList) + 1
  /\ call = Idle
  /\ before = <<>>
  /\ writes = 0
  /\ prev = NoPrev
  /\ pop = PopClosed
  /\ rec = NoRec
  /\ hist = NoHist
  /\ cats = <<>>
  /\ settings = SettingsClosed
  /\ catUi = NoCatUi
  /\ clicks = NoClicks

\* What the event loop does by itself once a call has resolved.
PopupStep == POpRead \/ POpScan \/ POpSettle \/ PMountFetch \/ PMountRehydrate

PopupNext ==
  \/ PClickDelete \/ PBulkDelete \/ PDeleteFolder \/ PSwitchView
  \/ PFindDuplicates \/ PMerge \/ PUndo \/ PUndoBatch
  \/ PTick \/ PBatchTick \/ PBatchTimeout \/ PMouseEnter \/ PMouseLeave
  \/ PAdvance \/ PReload \/ POpen
  \/ PMountFetch \/ PMountRehydrate \/ POpRead \/ POpScan \/ POpSettle

PopupSpec == PopupInit /\ [][PopupNext]_vars

PopupFairSpec == PopupSpec /\ WF_vars(PopupStep)

\* ===================================================================
\* Properties of the popup (specification PopupSpec)
\* ===================================================================

\* The ids of the nodes an undo buffer holds.
BufferedIds(p) ==
  (IF p.lastDeleted # NoNode THEN {p.lastDeleted.id} ELSE {})
    \cup Ids(p.undoBatch.bookmarks)

\* C4 (undo restores): once handleUndo has finished for a pending single
\* buffer, and until the next delete action, the stored list holds a node
\* with the buffered id, the buffer is idle and the persisted record is
\* removed -- whatever the interleaving with the delete that
\* handleDeleteWithUndo started.
C4_UndoRestores ==
  \A id \in hist.undone :
    /\ id \in Ids(store)
    /\ pop.lastDeleted = NoNode
    /\ rec = NoRec

\* C5 (undo for every destructive action): once the deletes of a delete
\* action (single, bulk, merge, folder delete in the tree) have completed,
\* and until that action's undo is used or expires, an undo buffer holds
\* every node the action removed from the stored list.
C5_UndoForAllDeletes ==
  (hist.act # "none" /\ pop.ops = {} /\ pop.merge.pc = "idle")
    => hist.removed \subseteq BufferedIds(pop)

SingleCarried ==
  (hist.carried.lastDeleted # NoNode
     /\ hist.carried.undoExpire > hist.remounted.at)
    => /\ hist.remounted.lastDeleted = hist.carried.lastDeleted
       /\ hist.remounted.undoExpire = hist.carried.undoExpire
       /\ hist.remounted.undoBatch = NoBatch

\* The batch buffer pending at the reload is pending again after the mount
\* that ran before its expiry.
BatchCarried ==
  (hist.carried.undoBatch # NoBatch
     /\ hist.carried.undoBatch.expire > hist.remounted.at)
    => hist.remounted.undoBatch = hist.carried.undoBatch

\* The list an Undo is about to write holds the node it restores.
UndoWritesNode ==
  \A o \in pop.ops :
    (o.op = "update" /\ o.pc = "set" /\ o.cont.kind \in {"undo", "undoBatch", "orphan"})
      => /\ o.id \in Ids(o.out)
         /\ \A f \in DOMAIN o.arg \ {"lastAccessed"} :
              NodeOf(o.out, o.id)[f] = o.arg[f]

\* C7 (a pending undo survives a reload): a buffer, single or batch, that
\* is pending at a reload is pending again after the mount (run before its
\* expiry), with the same nodes and expiry, and the list its Undo writes
\* holds the nodes.
C7_BuffersSurviveReload ==
  (hist.carried.some /\ hist.remounted.some)
    => SingleCarried /\ BatchCarried /\ UndoWritesNode

\* ===================================================================
\* Settings: JSON import and multi-file restore (SettingsModal)
\* ===================================================================

\* ------------------------------------------------------------- bounds
\* Longest imported array.
MaxImport == 2
\* Largest number of backup files picked at once.
MaxFiles == 2
\* Largest id crypto.randomUUID() hands out in a run of the settings.
MaxUuid == 6

\* ------------------------------------------------------------- inputs
\* The objects of an imported array: id and type present or missing.
RawObjects ==
  { [id |-> i, type |-> t] : i \in {Undef, 1, 2},
                             t \in {"undefined", "bookmark", "folder"} }

SeqsUpTo(S, n) == UNION { [1..k -> S] : k \in 0..n }

\* A stored category.
Cat(id, name) == [id |-> id, name |-> name, color |-> "#6366f1", icon |-> "f"]

\* The lists a backup file holds under 'bookmarks' and under 'categories'.
FileBookmarks ==
  { <<>>, <<MkNode(1, "bookmark", Null, 0)>>, <<MkNode(2, "bookmark", Null, 0)>>,
    <<MkNode(1, "bookmark", Null, 0), MkNode(2, "bookmark", Null, 0)>> }

FileCategories == { <<>>, <<Cat(7, "work")>> }

\* No key of the file holds a value that is not an array.
NoNonArray == [key |-> "none", truthy |-> FALSE]

\* A backup file.  doc is what the text of the file is: a JSON object, a
\* JSON array, null, a number, or no JSON at all.  A key the file holds
\* an array under has its flag TRUE; nonArray names a key that holds
\* something else, truthy ({}, "x", 1) or falsy (null, 0, "", false).
BackupFiles ==
  { [exportDate |-> d, hasBookmarks |-> hb, bookmarks |-> bl,
     hasCategories |-> hc, categories |-> cl,
     doc |-> "object", nonArray |-> NoNonArray] :
      d \in {1, 2}, hb \in BOOLEAN, bl \in FileBookmarks,
      hc \in BOOLEAN, cl \in FileCategories }

\* A file with no key at all: {} as an object, or a text of another kind.
Blank(doc) ==
  [exportDate |-> 0, hasBookmarks |-> FALSE, bookmarks |-> <<>>,
   hasCategories |-> FALSE, categories |-> <<>>,
   doc |-> doc, nonArray |-> NoNonArray]

\* Files with a flaw: a text that is not a JSON object, or an object
\* (empty, or with the bookmark 2) one key of which is not an array.
FlawedFiles ==
  { Blank(doc) : doc \in {"object", "array", "null", "number", "unparsable"} }
  \cup
  { [f EXCEPT !.nonArray = [key |-> k, truthy |-> t]] :
      f \in { Blank("object"),
               [Blank("object") EXCEPT
                  !.exportDate = 1, !.hasBookmarks = TRUE,
                  !.bookmarks = <<MkNode(2, "bookmark", Null, 0)>>] },
      k \in {"categories", "retoolPages", "notionPages"},
      t \in BOOLEAN }
  \cup
  { [Blank("object") EXCEPT !.nonArray = [key |-> "bookmarks", truthy |-> t]] :
      t \in BOOLEAN }

\* The files as JSON.parse leaves them: a list under each key the file
\* has, and something to restore in each file.
PickedFiles ==
  { f \in BackupFiles : /\ (f.hasBookmarks \/ f.hasCategories)
                        /\ (f.hasBookmarks <=> f.bookmarks # <<>>)
                        /\ (f.hasCategories <=> f.categories # <<>>) }

\* Sound files and flawed ones.
AnyFiles == PickedFiles \cup FlawedFiles

\* ---------------------------------------------------------- handleImport
\* imported.map(bm => ({ id: bm.id || crypto.randomUUID(), type: bm.type ||
\* 'bookmark', ..., imported: true })) for one object
ProcessedBookmark(bm, uuid, t) ==
  [id |-> IF bm.id # Undef THEN bm.id ELSE uuid,
   type |-> IF bm.type # "undefined" THEN bm.type ELSE "bookmark",
   title |-> "", url |-> "", parentId |-> Null, categoryId |-> NoCategory,
   tags |-> <<>>, createdAt |-> t, lastAccessed |-> Undef, accessCount |-> 0,
   imported |-> TRUE]

\* processedBookmarks, and the next id randomUUID would hand out
RECURSIVE ProcessImported(_, _, _)
ProcessImported(imported, uuid, t) ==
  IF imported = <<>> THEN [list |-> <<>>, next |-> uuid]
  ELSE LET bm   == Head(imported)
           used == IF bm.id = Undef THEN 1 ELSE 0
           rest == ProcessImported(Tail(imported), uuid + used, t)
       IN [list |-> <<ProcessedBookmark(bm, uuid, t)>> \o rest.list,
           next |-> rest.next]

\* --------------------------------------------------------- handleRestore
\* fileData.sort((a, b) => dateB - dateA): newest first, stable
RECURSIVE SortNewestFirst(_)
SortNewestFirst(files) ==
  IF files = <<>> THEN <<>>
  ELSE LET k == CHOOSE k \in 1..Len(files) :
                  /\ \A j \in 1..Len(files) : files[j].exportDate <= files[k].exportDate
                  /\ \A j \in 1..(k - 1) : files[j].exportDate < files[k].exportDate
       IN <<files[k]>> \o
          SortNewestFirst(SubSeq(files, 1, k - 1) \o SubSeq(files, k + 1, Len(files)))

\* All the bookmarks / categories of the files, in order.
RECURSIVE AllBookmarks(_)
AllBookmarks(files) ==
  IF files = <<>> THEN <<>> ELSE Head(files).bookmarks \o AllBookmarks(Tail(files))

RECURSIVE AllCategories(_)
AllCategories(files) ==
  IF files = <<>> THEN <<>> ELSE Head(files).categories \o AllCategories(Tail(files))

\* detectConflicts: conflicts.total -- the ids held by more than one
\* bookmark of the files, plus the names held by more than one category
DetectConflicts(files) ==
  LET bms  == AllBookmarks(files)
      cs   == AllCategories(files)
      bookmarkConflicts ==
        { bms[k].id : k \in { j \in 1..Len(bms) :
                               \E i \in 1..(j - 1) : bms[i].id = bms[j].id } }
      categoryConflicts ==
        { cs[k].name : k \in { j \in 1..Len(cs) :
                                \E i \in 1..(j - 1) : cs[i].name = cs[j].name } }
  IN Cardinality(bookmarkConflicts) + Cardinality(categoryConflicts)

\* The loop over validatedFiles: updates.bookmarks, starting from acc
\* (has = the key is set)
RECURSIVE RestoredBookmarks(_, _, _)
RestoredBookmarks(files, conflictResolution, acc) ==
  IF files = <<>> THEN acc
  ELSE LET data == Head(files)
           next == IF ~data.hasBookmarks THEN acc
                   ELSE IF conflictResolution = "merge"
                        THEN [has |-> TRUE, list |-> acc.list \o data.bookmarks]
                        ELSE [has |-> TRUE, list |-> data.bookmarks]
       IN RestoredBookmarks(Tail(files), conflictResolution, next)

\* The loop over validatedFiles: updates.bookmark_categories
RECURSIVE RestoredCategories(_, _, _)
RestoredCategories(files, conflictResolution, acc) ==
  IF files = <<>> THEN acc
  ELSE LET data == Head(files)
           next == IF ~data.hasCategories THEN acc
                   ELSE IF conflictResolution = "merge"
                        THEN [has |-> TRUE, list |-> acc.list \o data.categories]
                        ELSE [has |-> TRUE, list |-> data.categories]
       IN RestoredCategories(Tail(files), conflictResolution, next)

\* validateBackupData with the check of bookmarks alone.
ValidateBookmarksOnly(data) ==
  [isValid |->
     /\ data.doc \notin {"null", "number"}
     /\ ~(data.nonArray.key = "bookmarks" /\ data.nonArray.truthy)]

\* validateBackupData(data).isValid: data is an object (typeof, so an
\* array too) and no key of bookmarks, categories, retoolPages and
\* notionPages holds a truthy value that is not an array
ValidateBackupData(data) ==
  [isValid |->
     /\ data.doc \notin {"null", "number"}
     /\ ~(data.nonArray.key # "none" /\ data.nonArray.truthy)]

\* handleRestore throws before its confirmation: JSON.parse(content)
\* throws on a file that is no JSON; the comparator of fileData.sort reads
\* data.exportDate and throws on a file whose text is null, when there are
\* two files to compare; or validatedFiles.some(f => !f.validation.isValid).
RestoreThrows(picked) ==
  \/ \E k \in 1..Len(picked) : picked[k].doc = "unparsable"
  \/ Len(picked) >= 2 /\ \E k \in 1..Len(picked) : picked[k].doc = "null"
  \/ \E k \in 1..Len(picked) : ~ValidateBackupData(picked[k]).isValid

\* A file picked could not be parsed, or is no object, or holds under
\* one of the four keys a value (truthy, as the validation tests it) that
\* is not an array.
Flawed(picked) ==
  \E k \in 1..Len(picked) :
    \/ picked[k].doc \in {"unparsable", "null", "number"}
    \/ picked[k].nonArray.key # "none" /\ picked[k].nonArray.truthy

\* A file picked is an object with lists to restore and no other value
\* under the four keys.
Restorable(picked) ==
  \E k \in 1..Len(picked) :
    /\ picked[k].hasBookmarks \/ picked[k].hasCategories
    /\ picked[k].doc = "object"
    /\ picked[k].nonArray = NoNonArray

\* The last restore, for the properties: whether a file picked was
\* flawed, whether one was restorable, how the handler ended, the storage
\* keys it wrote, its toast, whether the stored lists are those from before
\* it, and the button of the conflict dialog clicked.
NoRestore ==
  [op |-> "none", flawed |-> FALSE, restorable |-> FALSE,
   outcome |-> "none", wrote |-> {}, toast |-> "none", kept |-> TRUE,
   clicked |-> "none"]

RestoreOf(picked) ==
  [NoRestore EXCEPT !.op = "restore", !.flawed = Flawed(picked),
                    !.restorable = Restorable(picked)]

SettingsUnchanged == UNCHANGED <<now, call, before, writes, pop, rec, hist, catUi, clicks>>

\* The settings can be used: no dialog covers them.
SettingsUp == ~settings.showConflictModal

\* A render of SettingsModal: let resolveConflictPromise = null.
Render(s) == [s EXCEPT !.resolveConflictPromise = "null"]

\* Import: a JSON array is picked; the processed list replaces the stored
\* list and the popup reloads.
HandleImport ==
  /\ SettingsUp
  /\ \E imported \in SeqsUpTo(RawObjects, MaxImport) :
       LET done == ProcessImported(imported, RandomUUID, now)
       IN /\ done.next <= MaxUuid + 1
          /\ store' = done.list
          /\ nextId' = done.next
  /\ settings' = SettingsClosed
  /\ prev' = NoRestore
  /\ UNCHANGED cats /\ SettingsUnchanged

\* Restore from Backup with a file that cannot be parsed, or that fails
\* the validation: the throw is caught, a toast shows the message, and
\* finally isRestoring is false again.
HandleRestoreThrows(Files) ==
  /\ SettingsUp /\ ~settings.isRestoring
  /\ \E picked \in SeqsUpTo(Files, MaxFiles) :
       /\ picked # <<>>
       /\ RestoreThrows(picked)
       /\ prev' = [RestoreOf(picked) EXCEPT !.outcome = "rejected",
                                            !.toast = "error"]
  /\ settings' = Render([settings EXCEPT !.isRestoring = FALSE])
  /\ UNCHANGED <<store, cats, nextId>> /\ SettingsUnchanged

\* updates after the loop over validatedFiles
Updates(files, conflictResolution) ==
  [bookmarks |-> RestoredBookmarks(files, conflictResolution, NoUpdate),
   bookmark_categories |-> RestoredCategories(files, conflictResolution, NoUpdate)]

\* The rest of handleRestore, from the backup of the current data on:
\* the lists of the files replace the stored lists (the categories re-added
\* one by one on the way are overwritten by the final write); without a
\* list in any file the handler throws after the backup was written.
RestoreFrom(updates) ==
  LET bms == updates.bookmarks
      cs  == updates.bookmark_categories
      hasRestoredData == bms.has \/ cs.has
  IN [store |-> IF bms.has THEN bms.list ELSE store,
      cats |-> IF cs.has THEN cs.list ELSE cats,
      outcome |-> IF hasRestoredData THEN "restored" ELSE "rejected",
      toast |-> IF hasRestoredData THEN "success" ELSE "error",
      wrote |-> {"restore_backup"}
                \cup (IF bms.has THEN {"bookmarks"} ELSE {})
                \cup (IF cs.has THEN {"bookmark_categories"} ELSE {})
                \cup (IF hasRestoredData THEN {"lastBackup"} ELSE {})]

\* Restore from Backup with valid files whose ids and category names do
\* not collide: window.confirm is answered; declined, the handler returns;
\* confirmed, the restore is made and the popup reloads.
HandleRestore(Files) ==
  /\ SettingsUp /\ ~settings.isRestoring
  /\ \E picked \in SeqsUpTo(Files, MaxFiles), confirmed \in BOOLEAN :
       LET files == SortNewestFirst(picked)
           done  == RestoreFrom(Updates(files, settings.conflictResolution))
       IN /\ picked # <<>>
          /\ ~RestoreThrows(picked)
          /\ DetectConflicts(files) = 0
          /\ IF confirmed
             THEN /\ store' = done.store
                  /\ cats' = done.cats
                  /\ prev' = [RestoreOf(picked) EXCEPT
                                !.outcome = done.outcome, !.toast = done.toast,
                                !.wrote = done.wrote,
                                !.kept = (store' = store /\ cats' = cats)]
                  /\ settings' = IF done.outcome = "restored" THEN SettingsClosed
                                 ELSE Render([settings EXCEPT !.isRestoring = FALSE])
             ELSE /\ UNCHANGED <<store, cats>>
                  /\ prev' = [RestoreOf(picked) EXCEPT !.outcome = "declined"]
                  /\ settings' = Render([settings EXCEPT !.isRestoring = FALSE])
  /\ UNCHANGED nextId /\ SettingsUnchanged

\* Restore from Backup with valid, colliding files: the conflict dialog is
\* shown and handleRestore awaits its promise, to go on with its files and
\* the conflictResolution of its render.  The resolve function is assigned
\* to the resolveConflictPromise of the render the handler belongs to; the
\* dialog is drawn by a later render.
HandleRestoreConflict(Files) ==
  /\ SettingsUp /\ ~settings.isRestoring
  /\ \E picked \in SeqsUpTo(Files, MaxFiles) :
       LET files == SortNewestFirst(picked)
       IN /\ picked # <<>>
          /\ ~RestoreThrows(picked)
          /\ DetectConflicts(files) > 0
          /\ prev' = [RestoreOf(picked) EXCEPT !.outcome = "awaiting"]
          /\ settings' = Render([settings EXCEPT
                                   !.isRestoring = TRUE,
                                   !.showConflictModal = TRUE,
                                   !.resolveConflictPromise = "resolve",
                                   !.awaiting = Updates(files, settings.conflictResolution)])
  /\ UNCHANGED <<store, cats, nextId>> /\ SettingsUnchanged

\* Cancel in the conflict dialog: if (resolveConflictPromise)
\* resolveConflictPromise(null) -- the handler hides the dialog and
\* returns, and finally isRestoring is false.
ConflictCancel ==
  /\ settings.showConflictModal
  /\ IF settings.resolveConflictPromise # "null"
     THEN /\ settings' = Render([settings EXCEPT !.showConflictModal = FALSE,
                                                 !.isRestoring = FALSE,
                                                 !.awaiting = NoUpdates])
          /\ prev' = [prev EXCEPT !.clicked = "cancel", !.outcome = "cancelled"]
     ELSE /\ settings' = settings
          /\ prev' = [prev EXCEPT !.clicked = "cancel"]
  /\ UNCHANGED <<store, cats, nextId>> /\ SettingsUnchanged

\* Continue in the conflict dialog: if (resolveConflictPromise)
\* resolveConflictPromise(conflictResolutionChoice) -- the handler goes on:
\* the restore is made and the popup reloads.
ConflictContinue ==
  /\ settings.showConflictModal
  /\ IF settings.resolveConflictPromise # "null"
     THEN LET done == RestoreFrom(settings.awaiting)
          IN /\ store' = done.store
             /\ cats' = done.cats
             /\ prev' = [prev EXCEPT !.clicked = "continue",
                                     !.outcome = done.outcome,
                                     !.toast = done.toast, !.wrote = done.wrote,
                                     !.kept = (store' = store /\ cats' = cats)]
             /\ settings' = SettingsClosed
     ELSE /\ UNCHANGED <<store, cats>>
          /\ settings' = settings
          /\ prev' = [prev EXCEPT !.clicked = "continue"]
  /\ UNCHANGED nextId /\ SettingsUnchanged

\* The popup is closed and opened again: SettingsModal is constructed anew.
SettingsReopen ==
  /\ settings # SettingsClosed
  /\ settings' = SettingsClosed
  /\ prev' = NoRestore
  /\ UNCHANGED <<store, cats, nextId>> /\ SettingsUnchanged

SettingsInit ==
  /\ store \in { <<>>, <<MkNode(1, "bookmark", Null, 0)>>,
                 <<MkNode(1, "bookmark", Null, 0), MkNode(2, "folder", Null, 0)>> }
  /\ cats \in { <<>>, <<Cat(7, "work")>> }
  /\ now = 0
  /\ nextId = 3
  /\ call = Idle
  /\ before = <<>>
  /\ writes = 0
  /\ prev = NoRestore
  /\ pop = PopClosed
  /\ rec = NoRec
  /\ hist = NoHist
  /\ settings = SettingsClosed
  /\ catUi = NoCatUi
  /\ clicks = NoClicks

SettingsNext ==
  \/ HandleImport \/ HandleRestore(PickedFiles)
  \/ HandleRestoreConflict(PickedFiles) \/ SettingsReopen

SettingsSpec == SettingsInit /\ [][SettingsNext]_vars

\* No two nodes of the list have the same id.
IdsUnique(list) ==
  \A j, k \in 1..Len(list) : j # k => list[j].id # list[k].id

\* C11 (id uniqueness): after any sequence of JSON imports and multi-file
\* restores no two stored nodes have the same id.
C11_IdsUnique == IdsUnique(store)

\* ===================================================================
\* Further properties of the repository and of the popup
\* ===================================================================

\* C12 (type immutability): an updateBookmarkNode(id, updates) for a stored
\* id, whatever fields updates holds, leaves the node stored under id with
\* the type it had before.
C12_TypeImmutable ==
  UpdateFoundDone =>
    TypeOf(NodeOf(store, call.id)) = TypeOf(NodeOf(before, call.id))

\* The type stored under each id of the popup's list is the type the
\* node was created with.
PopupTypesKept ==
  \A k \in 1..Len(store) :
    store[k].id \in Ids(PopupList) =>
      TypeOf(store[k]) = TypeOf(NodeOf(PopupList, store[k].id))

\* ===================================================================
\* Duplicates and merge on lists of bookmarks (BookmarkTable)
\* ===================================================================

\* ------------------------------------------------------------- bounds
\* Longest list of bookmarks with urls of their own.
MaxDup == 3

\* A root bookmark; "undefined" for a url or description it lacks.
DupBm(id, url, tags, description) ==
  LET base == [id |-> id, type |-> "bookmark", title |-> "Ex", parentId |-> Null,
               tags |-> tags, createdAt |-> 0, lastAccessed |-> 0,
               accessCount |-> 0]
      u == IF url = "undefined" THEN base ELSE Overlay(base, [url |-> url])
  IN IF description = "undefined" THEN u
     ELSE Overlay(u, [description |-> description])

\* Lists whose urls differ in case, are empty or are missing.
UrlLists ==
  { [k \in DOMAIN url |-> DupBm(k, url[k], <<>>, "undefined")] :
      url \in UNION { [1..n -> {"https://ex.com", "https://Ex.com", "", "undefined"}] :
                      n \in 0..MaxDup } }

\* Lists of three bookmarks of one url; the tags and the descriptions of
\* the first two vary.
FieldLists ==
  { << DupBm(1, "https://ex.com", t1, d1), DupBm(2, "https://ex.com", t2, d2),
       DupBm(3, "https://ex.com", <<"z">>, "undefined") >> :
      t1 \in {<<>>, <<"x", "y">>, <<"y", "y">>},
      t2 \in {<<>>, <<"y", "z">>},
      d1 \in {"undefined", "", "short", "a longer one"},
      d2 \in {"undefined", "small", "a longer one"} }

\* A list with two groups: two bookmarks of one url, one without url and
\* one with the empty url.
PairLists ==
  { << DupBm(1, "https://ex.com", <<"x">>, "short"),
       DupBm(2, "", <<>>, "undefined"),
       DupBm(3, "https://ex.com", <<"y">>, "undefined"),
       DupBm(4, "undefined", <<"z">>, "a longer one") >> }

MergeLists == UrlLists \cup FieldLists \cup PairLists

\* The popup is open on one of the lists, its mount effects done.
MergeInit ==
  /\ store \in MergeLists
  /\ pop = [PopClosed EXCEPT !.open = TRUE, !.bookmarks = store]
  /\ now = 0
  /\ nextId = MaxDup + 2
  /\ call = Idle
  /\ before = <<>>
  /\ writes = 0
  /\ prev = NoPrev
  /\ rec = NoRec
  /\ hist = NoHist
  /\ cats = <<>>
  /\ settings = SettingsClosed
  /\ catUi = NoCatUi
  /\ clicks = NoClicks

MergeNext ==
  \/ PFindDuplicates \/ PClickDelete \/ PMerge \/ POpRead \/ POpSettle

MergeSpec == MergeInit /\ [][MergeNext]_vars

\* The ids of the listed nodes carrying url u (a missing url counts as '').
Carrying(safe, u) == { safe[k].id : k \in { j \in 1..Len(safe) : UrlOf(safe[j]) = u } }

SeqSet(seq) == { seq[k] : k \in 1..Len(seq) }

\* C13 (duplicate grouping): for the list the table holds, findDuplicates
\* yields one group for each url carried by at least two nodes and no other
\* group; a group's members are exactly the nodes carrying its url string;
\* no node is in two groups or twice in one; a node whose url no other node
\* shares is in no group and is not highlighted.
C13_DuplicateGroups ==
  LET safe   == SafeBookmarks(pop.bookmarks)
      groups == FindDuplicates(safe)
      dups   == Duplicates(groups)
  IN /\ { groups[g].url : g \in 1..Len(groups) } =
          { UrlOf(safe[k]) : k \in { j \in 1..Len(safe) :
                                      Cardinality(Carrying(safe, UrlOf(safe[j]))) >= 2 } }
     /\ \A g, h \in 1..Len(groups) : g # h => groups[g].url # groups[h].url
     /\ \A g \in 1..Len(groups) :
          /\ SeqSet(groups[g].ids) = Carrying(safe, groups[g].url)
          /\ Len(groups[g].ids) = Cardinality(Carrying(safe, groups[g].url))
     /\ \A k \in 1..Len(safe) :
          Cardinality({ g \in 1..Len(groups) : safe[k].id \in SeqSet(groups[g].ids) }) <= 1
     /\ \A k \in 1..Len(safe) :
          Carrying(safe, UrlOf(safe[k])) = {safe[k].id}
            => /\ \A g \in 1..Len(groups) : safe[k].id \notin SeqSet(groups[g].ids)
               /\ safe[k].id \notin SeqSet(dups)

\* C13 witness: Find Duplicates was clicked on a list in which a bookmark
\* without url and one with the empty url form a group, beside a bookmark
\* whose url differs from another's in case only.
C13_Witness ==
  LET safe == SafeBookmarks(pop.bookmarks)
  IN /\ pop.duplicateGroups # <<>>
     /\ pop.duplicateGroups = FindDuplicates(safe)
     /\ \E j, k \in 1..Len(safe) :
          /\ "url" \notin DOMAIN safe[j] /\ UrlOf(safe[k]) = "" /\ "url" \in DOMAIN safe[k]
     /\ \E k \in 1..Len(safe) :
          /\ UrlOf(safe[k]) \in {"https://ex.com", "https://Ex.com"}
          /\ safe[k].id \notin SeqSet(Duplicates(pop.duplicateGroups))

\* ---------------------------------------------------- merged groups
\* A handleMerge has completed that began with no hook call in flight and
\* the popup's list equal to the stored list.
MergeCompleted == hist.merged.some /\ hist.merged.done /\ hist.merged.alone

\* The members of group g of the completed merge that were stored when it
\* began, in group order.
MembersOf(g) ==
  LET ids  == hist.merged.groups[g].ids
      have == SelectSeq(ids, LAMBDA id : id \in Ids(hist.merged.stored))
  IN [k \in 1..Len(have) |-> NodeOf(hist.merged.stored, have[k])]

\* The groups of the completed merge with two members or more still stored
\* when it began.
MergedGroups ==
  { g \in 1..Len(hist.merged.groups) : Len(MembersOf(g)) >= 2 }

\* The node group g's keep id names in the stored list.
KeptOf(g) == NodeOf(store, hist.merged.sel[g])

\* C14 (merge tag union): when a merge with 'merge tags' ticked has
\* completed, the stored kept node of every merged group has as tags
\* exactly the union of the members' tags, no tag twice; and every update a
\* running merge hands to onUpdate with 'merge tags' ticked carries tags
\* without repetition.
C14_TagUnion ==
  /\ (MergeCompleted /\ hist.merged.opts.mergeTags) =>
       \A g \in MergedGroups :
         /\ hist.merged.sel[g] \in Ids(store)
         /\ SeqSet(TagsOf(KeptOf(g))) =
              UNION { SeqSet(TagsOf(MembersOf(g)[k])) : k \in 1..Len(MembersOf(g)) }
         /\ Cardinality(SeqSet(TagsOf(KeptOf(g)))) = Len(TagsOf(KeptOf(g)))
  /\ \A o \in pop.ops :
       (o.cont.kind = "merge" /\ o.op = "update" /\ pop.merge.opts.mergeTags) =>
         Cardinality(SeqSet(TagsOf(o.arg))) = Len(TagsOf(o.arg))

\* C14 witness: a merge with 'merge tags' ticked has completed on a group
\* whose members share a tag and whose kept node lacked a tag of another.
C14_Witness ==
  /\ MergeCompleted /\ hist.merged.opts.mergeTags
  /\ \E g \in MergedGroups :
       /\ hist.merged.sel[g] \in Ids(hist.merged.stored)
       /\ \E j, k \in 1..Len(MembersOf(g)) :
            /\ j # k
            /\ SeqSet(TagsOf(MembersOf(g)[j])) \cap SeqSet(TagsOf(MembersOf(g)[k])) # {}
       /\ SeqSet(TagsOf(NodeOf(hist.merged.stored, hist.merged.sel[g])))
            # SeqSet(TagsOf(KeptOf(g)))

\* The longest length among the members' descriptions (a missing one is '').
MaxDescription(g) ==
  LET m == MembersOf(g)
  IN CHOOSE n \in { Len(DescriptionOf(m[k])) : k \in 1..Len(m) } :
       \A k \in 1..Len(m) : Len(DescriptionOf(m[k])) <= n

\* C15 (merge longest description): when a merge with 'merge descriptions'
\* ticked has completed, the stored kept node of every merged group with a
\* non-empty description among its members has the description of the first
\* member, in group order, of maximal length; when all are empty the kept
\* node's description field is as it was before the merge.
C15_LongestDescription ==
  (MergeCompleted /\ hist.merged.opts.mergeDescriptions) =>
    \A g \in MergedGroups :
      LET m    == MembersOf(g)
          keep == hist.merged.sel[g]
          was  == NodeOf(hist.merged.stored, keep)
      IN /\ keep \in Ids(store)
         /\ MaxDescription(g) > 0 =>
              \E k \in 1..Len(m) :
                /\ Len(DescriptionOf(m[k])) = MaxDescription(g)
                /\ \A j \in 1..(k - 1) : Len(DescriptionOf(m[j])) < MaxDescription(g)
                /\ "description" \in DOMAIN KeptOf(g)
                /\ KeptOf(g).description = DescriptionOf(m[k])
         /\ (MaxDescription(g) = 0 /\ keep \in Ids(hist.merged.stored)) =>
              /\ ("description" \in DOMAIN KeptOf(g)) = ("description" \in DOMAIN was)
              /\ DescriptionOf(KeptOf(g)) = DescriptionOf(was)

\* C15 witness: a completed merge gave the kept node the first of two
\* longest descriptions of equal length, which it did not have before.
C15_Witness ==
  /\ MergeCompleted /\ hist.merged.opts.mergeDescriptions
  /\ \E g \in MergedGroups :
       LET m == MembersOf(g)
       IN /\ hist.merged.sel[g] \in Ids(hist.merged.stored)
          /\ \E j, k \in 1..Len(m) :
               /\ j < k
               /\ Len(DescriptionOf(m[j])) = MaxDescription(g)
               /\ Len(DescriptionOf(m[k])) = MaxDescription(g)
               /\ DescriptionOf(m[j]) # DescriptionOf(m[k])
               /\ KeptOf(g).description = DescriptionOf(m[j])
               /\ DescriptionOf(NodeOf(hist.merged.stored, hist.merged.sel[g]))
                    # DescriptionOf(m[j])

\* C15 witness, second case: a completed merge of a group whose members all
\* lack a description or have the empty one.
C15_WitnessEmpty ==
  /\ MergeCompleted /\ hist.merged.opts.mergeDescriptions
  /\ \E g \in MergedGroups :
       /\ MaxDescription(g) = 0
       /\ hist.merged.sel[g] \in Ids(hist.merged.stored)
       /\ \E k \in 1..Len(MembersOf(g)) : "description" \in DOMAIN MembersOf(g)[k]

\* The members of the merged groups other than the one kept in each.
NonKept ==
  UNION { { MembersOf(g)[k].id : k \in 1..Len(MembersOf(g)) } \ {hist.merged.sel[g]} :
          g \in MergedGroups }

C17_OneSurvivor ==
  MergeCompleted =>
    /\ \A g \in 1..Len(hist.merged.groups) :
         LET group == hist.merged.groups[g]
             keep  == hist.merged.sel[g]
         IN IF Len(MembersOf(g)) < 2
            THEN \A k \in 1..Len(MembersOf(g)) :
                   /\ MembersOf(g)[k].id \in Ids(store)
                   /\ NodeOf(store, MembersOf(g)[k].id) = MembersOf(g)[k]
            ELSE /\ SeqSet(group.ids) \cap Ids(store) = {keep}
                 /\ TypeOf(KeptOf(g)) = "bookmark"
                 /\ UrlOf(KeptOf(g)) = group.url
    /\ Ids(store) \subseteq Ids(hist.merged.stored)

\* ===================================================================
\* Categories: BookmarkService.deleteCategory, CategoryManager and the
\* table's category cell
\* ===================================================================
\* The stored category lists the model starts from: up to two entries, the
\* same id twice included.
CatLists == SeqsUpTo({Cat(7, "work"), Cat(8, "home")}, 2)

\* The stored bookmarks: the first names category 7 or a category that was
\* never stored, the second category 8 or none.
CatStores ==
  { << Bm(1, <<>>, c1, ""), Bm(2, <<>>, c2, "") >> :
      c1 \in {7, 9}, c2 \in {NoCategory, 8} }

\* The ids a category can be deleted by.
CatIds == {7, 8, 9}

\* categories.filter(cat => cat.id !== id)
WithoutCategory(list, id) == SelectSeq(list, LAMBDA c : c.id # id)

\* The table's category cell: isBookmark(bookmark) && bookmark.categoryId &&
\* (safeCategories.find(c => c.id === bookmark.categoryId)?.name || 'Uncategorized');
\* "" when nothing is rendered
CategoryCell(b, safeCategories) ==
  IF TypeOf(b) = "bookmark" /\ CategoryOf(b) # NoCategory
  THEN IF \E k \in 1..Len(safeCategories) : safeCategories[k].id = CategoryOf(b)
       THEN safeCategories[CHOOSE k \in 1..Len(safeCategories) :
                   /\ safeCategories[k].id = CategoryOf(b)
                   /\ \A j \in 1..(k - 1) : safeCategories[j].id # CategoryOf(b)].name
       ELSE "Uncategorized"
  ELSE ""

CatUnchanged ==
  UNCHANGED <<store, now, nextId, call, before, writes, prev, pop, rec, hist, settings, clicks>>

\* No category call is running.
CatFree == catUi.call.pc \in {"idle", "done"}

\* The table view is shown: BookmarkTable's useCategories and
\* CategoryManager's mount effect each fetch the stored categories.
CatMount ==
  /\ ~catUi.mounted /\ CatFree
  /\ catUi' = [catUi EXCEPT !.mounted = TRUE, !.table = cats, !.manager = cats]
  /\ UNCHANGED cats /\ CatUnchanged

\* The view is left (tree view, popup closed): both components unmount.
CatUnmount ==
  /\ catUi.mounted /\ CatFree
  /\ catUi' = [catUi EXCEPT !.mounted = FALSE, !.table = <<>>, !.manager = <<>>]
  /\ UNCHANGED cats /\ CatUnchanged

\* The delete button of a category listed by CategoryManager: handleDelete
\* up to its first await.
ManagerHandleDelete ==
  /\ catUi.mounted /\ CatFree
  /\ \E k \in 1..Len(catUi.manager) :
       catUi' = [catUi EXCEPT
                   !.call = [op |-> "delete", pc |-> "get",
                             id |-> catUi.manager[k].id, list |-> <<>>,
                             by |-> "manager"],
                   !.before = [cats |-> cats, store |-> store]]
  /\ UNCHANGED cats /\ CatUnchanged

\* BookmarkService.deleteCategory(id) is called (the restore paths, the
\* hook) up to its first await.
DeleteCategory ==
  /\ CatFree
  /\ \E id \in CatIds :
       catUi' = [catUi EXCEPT
                   !.call = [op |-> "delete", pc |-> "get", id |-> id,
                             list |-> <<>>, by |-> "service"],
                   !.before = [cats |-> cats, store |-> store]]
  /\ UNCHANGED cats /\ CatUnchanged

\* The read of 'bookmark_categories' resolves.
CatGet ==
  /\ catUi.call.pc = "get"
  /\ catUi' = [catUi EXCEPT !.call.list = cats, !.call.pc = "set"]
  /\ UNCHANGED cats /\ CatUnchanged

\* The filtered list is written; deleteCategory returns, handleDelete goes
\* on to fetch the list anew.
CatSet ==
  /\ catUi.call.pc = "set"
  /\ cats' = WithoutCategory(catUi.call.list, catUi.call.id)
  /\ catUi' = [catUi EXCEPT !.call.pc =
                 IF catUi.call.by = "manager" THEN "refresh" ELSE "done"]
  /\ CatUnchanged

\* handleDelete: BookmarkService.getCategories().then(setCategories); no
\* onCategoryChange is passed, the table is not told.
ManagerRefresh ==
  /\ catUi.call.pc = "refresh"
  /\ catUi' = [catUi EXCEPT !.manager = cats, !.call.pc = "done"]
  /\ UNCHANGED cats /\ CatUnchanged

CatInit ==
  /\ store \in CatStores
  /\ cats \in CatLists
  /\ now = 0
  /\ nextId = 3
  /\ call = Idle
  /\ before = <<>>
  /\ writes = 0
  /\ prev = NoPrev
  /\ pop = PopClosed
  /\ rec = NoRec
  /\ hist = NoHist
  /\ settings = SettingsClosed
  /\ catUi = NoCatUi
  /\ clicks = NoClicks

CatNext ==
  \/ CatMount \/ CatUnmount \/ ManagerHandleDelete \/ DeleteCategory
  \/ CatGet \/ CatSet \/ ManagerRefresh

CatSpec == CatInit /\ [][CatNext]_vars

\* A category delete has completed.
CatDeleted == catUi.call.op = "delete" /\ catUi.call.pc = "done"

\* The stored bookmarks naming a category that is not stored.
Dangling ==
  { k \in 1..Len(store) :
      /\ CategoryOf(store[k]) # NoCategory
      /\ \A j \in 1..Len(cats) : cats[j].id # CategoryOf(store[k]) }

\* C18 (category deletion does not cascade): when a category delete has
\* completed, the stored bookmarks are as before, the stored categories are
\* the previous list without the entries of that id, and the table shows
\* every bookmark whose categoryId matches no stored category as
\* 'Uncategorized'.
C18_NoCascade ==
  CatDeleted =>
    /\ store = catUi.before.store
    /\ cats = WithoutCategory(catUi.before.cats, catUi.call.id)
    /\ catUi.mounted =>
         \A k \in Dangling : CategoryCell(store[k], catUi.table) = "Uncategorized"

\* The frame part of C18 alone: bookmarks untouched, the category list
\* filtered.
CategoryFrame ==
  CatDeleted =>
    /\ store = catUi.before.store
    /\ cats = WithoutCategory(catUi.before.cats, catUi.call.id)
    /\ \A k \in 1..Len(store) :
         CategoryOf(store[k]) = CategoryOf(catUi.before.store[k])

\* The frame part is exercised: a delete removed a category a stored
\* bookmark names.
CategoryFrameWitness ==
  /\ CatDeleted /\ cats # catUi.before.cats
  /\ \E k \in 1..Len(store) : CategoryOf(store[k]) = catUi.call.id

\* ===================================================================
\* Concurrent repository calls on the 'bookmarks' key
\* ===================================================================
\* The lists the calls start from: empty, one bookmark, a folder holding a
\* bookmark.
RaceLists ==
  { <<>>, <<MkNode(1, "bookmark", Null, 0)>>,
    <<MkNode(1, "folder", Null, 0), MkNode(2, "bookmark", 1, 0)>> }

\* The calls two call sites can make.
RaceCalls ==
  { [op |-> "add", id |-> Null, arg |-> d] : d \in Drafts }
    \cup { [op |-> "update", id |-> 1, arg |-> [title |-> "Ex2"]],
           [op |-> "delete", id |-> 1, arg |-> NoArg] }

\* A repository call just made: the call's record, the number of the call
\* (act), and when its read and its write were served.
RaceOp(c, n) ==
  Overlay(NewOp(c.op, c.id, c.arg, Cont("orphan"), n), [readAt |-> 0, wroteAt |-> 0])

\* Mutant of StorageSet: the write adds the call's node to the current value.
StorageSetMerging(value, o) ==
  IF o.op = "add" THEN Append(value, o.ret) ELSE o.out

\* StorageService.set(key, value): chrome.storage.local.set({ [key]: value })
\* replaces the key's value by the list the call computed
StorageSet(value, o) == o.out

RaceUnchanged == UNCHANGED <<now, call, before, prev, rec, hist, cats, settings, catUi, clicks>>

\* A call site calls addBookmarkOrFolder, updateBookmarkNode or
\* deleteBookmarkNode, whatever other call is in flight.
RaceCall ==
  /\ Room(1)
  /\ \E c \in RaceCalls :
       pop' = [pop EXCEPT !.ops = @ \cup {RaceOp(c, Cardinality(pop.ops) + 1)}]
  /\ UNCHANGED <<store, nextId, writes>> /\ RaceUnchanged

\* A call's read of the list resolves; the call runs on to its write (add,
\* update), or through the first pass of its loop (delete).
RaceRead ==
  /\ Quiet
  /\ \E o \in pop.ops :
       /\ o.pc = "get"
       /\ LET r == [o EXCEPT !.readAt = writes + 1]
          IN pop' = [pop EXCEPT !.ops = (@ \ {o}) \cup
                       {CASE o.op = "add" -> ReadAdd(r, store, RandomUUID, now)
                          [] o.op = "update" -> ReadUpdate(r, store, now)
                          [] OTHER -> ScanEnd(ScanPass(ReadDelete(r, store)))}]
       /\ nextId' = IF o.op = "add" THEN nextId + 1 ELSE nextId
  /\ writes' = writes + 1
  /\ UNCHANGED store /\ RaceUnchanged

\* deleteBookmarkNode: one more pass of the do-while loop.
RaceScan ==
  /\ \E o \in pop.ops :
       /\ o.pc = "scan"
       /\ pop' = [pop EXCEPT !.ops = (@ \ {o}) \cup {ScanEnd(ScanPass(o))}]
  /\ UNCHANGED <<store, nextId, writes>> /\ RaceUnchanged

\* A call's write lands and the call returns (ok: the node it returns, or
\* true); a delete that changed nothing returns false without a write.
RaceSettle ==
  /\ Quiet
  /\ \E o \in pop.ops :
       /\ o.pc \in {"set", "done"}
       /\ store' = IF o.pc = "set" THEN StorageSet(store, o) ELSE store
       /\ pop' = [pop EXCEPT !.ops = (@ \ {o}) \cup
                    {[o EXCEPT !.pc = "returned", !.ok = (o.pc = "set"),
                               !.wroteAt = IF o.pc = "set" THEN writes + 1 ELSE 0]}]
  /\ writes' = writes + 1
  /\ UNCHANGED nextId /\ RaceUnchanged

RaceInit ==
  /\ store \in RaceLists
  /\ pop = PopClosed
  /\ now = 0
  /\ nextId = MaxNodes + 1
  /\ call = Idle
  /\ before = <<>>
  /\ writes = 0
  /\ prev = NoPrev
  /\ rec = NoRec
  /\ hist = NoHist
  /\ cats = <<>>
  /\ settings = SettingsClosed
  /\ catUi = NoCatUi
  /\ clicks = NoClicks

RaceNext == RaceCall \/ RaceRead \/ RaceScan \/ RaceSettle

RaceSpec == RaceInit /\ [][RaceNext]_vars

\* Every call made has returned.
AllReturned == pop.ops # {} /\ \A o \in pop.ops : o.pc = "returned"

\* The calls that wrote.
Writers == { o \in pop.ops : o.pc = "returned" /\ o.ok }

\* Call a wrote after call b had read and before b wrote: b computed its
\* list without a's change.
Unseen(a, b) == a.ok /\ b.ok /\ b.readAt < a.wroteAt /\ a.wroteAt < b.wroteAt

\* C19 (lost update is reachable): the repository is last-write-wins on the
\* whole list. Once every call has returned, the stored list is the list
\* the last writer computed from the list it read; a node added by a call
\* whose write the last writer did not see is not stored, though that call
\* returned it.
C19_LastWriteWins ==
  AllReturned =>
    \A last \in Writers :
      (\A o \in Writers : o.wroteAt <= last.wroteAt) =>
        /\ store = last.out
        /\ Ids(store) \subseteq
             Ids(last.bookmarks) \cup (IF last.op = "delete" THEN {} ELSE {last.ret.id})
        /\ \A a \in Writers :
             (a.op = "add" /\ Unseen(a, last)) => a.ret.id \notin Ids(store)

\* C19 witness: two addBookmarkOrFolder calls both read the list before
\* either wrote, both returned a node, and the stored list has grown by
\* one node only.
C19_Witness ==
  /\ AllReturned
  /\ \E a, b \in Writers :
       /\ a.op = "add" /\ b.op = "add" /\ Unseen(a, b)
       /\ a.readAt < a.wroteAt /\ b.readAt < a.wroteAt
       /\ b.bookmarks = a.bookmarks
       /\ Len(store) = Len(a.bookmarks) + 1
       /\ b.ret.id \in Ids(store) /\ a.ret.id \notin Ids(store)

\* ---------------------------------------------------------- bulk delete
\* A confirmed bulk delete of two rows or more has finished: every delete
\* it started has resolved, and the popup is still open.
BulkDeleteFinished ==
  /\ hist.act = "bulk" /\ Cardinality(hist.aimed) >= 2
  /\ \A o \in pop.ops : o.act # hist.actNo
  /\ pop.open /\ pop.mount = {}

\* C20 (a bulk delete removes everything selected): once every delete of a
\* confirmed bulk delete of two or more bookmarks has finished, none of the
\* selected ids is stored and the stored list has the ids of the list the
\* popup shows.
C20_BulkDelete ==
  BulkDeleteFinished =>
    /\ hist.aimed \cap Ids(store) = {}
    /\ Ids(store) = Ids(pop.bookmarks)

\* ===================================================================
\* useBookmarks over BookmarkService: one call at a time, reads and writes
\* that can fail
\* ===================================================================
\* The lists the hook starts from: empty, a bookmark, a folder holding a
\* bookmark, a folder holding a folder holding a bookmark, an empty folder
\* beside a bookmark.
HookLists ==
  { <<>>,
    <<MkNode(1, "bookmark", Null, 0)>>,
    <<MkNode(1, "folder", Null, 0), MkNode(2, "bookmark", 1, 0)>>,
    <<MkNode(1, "folder", Null, 0), MkNode(2, "folder", 1, 0),
      MkNode(3, "bookmark", 2, 0)>>,
    <<MkNode(1, "folder", Null, 0), MkNode(2, "bookmark", Null, 0)>> }

\* The calls a component makes on the hook; 9 is an id no node has.
HookCalls ==
  { [op |-> "add", id |-> Null, arg |-> d] : d \in Drafts }
    \cup UNION { { [op |-> "update", id |-> id, arg |-> a] :
                     a \in {[title |-> "Ex2"], MkNode(id, "bookmark", Null, 0)} } :
                   id \in {1, 9} }
    \cup { [op |-> "delete", id |-> id, arg |-> NoArg] : id \in {1, 2, 9} }

\* A hook call just made; readFailed: its read of the list was not served.
HookOp(c, n) ==
  Overlay(NewOp(c.op, c.id, c.arg, Cont("none"), n), [readFailed |-> FALSE])

\* The last hook call that settled: how it ended, the stored list and the
\* hook's list when it was made.
NoSettled ==
  [op |-> "none", id |-> Null, ret |-> NoArg, ok |-> FALSE, list |-> <<>>,
   shown |-> <<>>, outcome |-> "none", readFailed |-> FALSE, error |-> "null"]

\* getBookmarks when StorageService.get caught an error and returned null
\* (or the value is not an array): Array.isArray(data) ? data : []
FailOpen == <<>>

\* Mutant of HookCaught: the hook also applies the call's change to its list.
HookCaughtOptimistic(p, o) ==
  [p EXCEPT !.error = "error", !.bookmarks = HookAfter(@, [o EXCEPT !.ok = TRUE])]

\* useBookmarks, catch (err): setError(err.message); throw err;
HookCaught(p, o) == [p EXCEPT !.error = "error"]

HookUnchanged == UNCHANGED <<now, call, writes, rec, cats, settings, catUi, clicks>>

\* A component calls addBookmarkOrFolder, updateBookmarkNode or
\* deleteBookmarkNode of the hook; no other call is in flight.
HookCall ==
  /\ pop.ops = {} /\ hist.gestures < MaxGestures
  /\ \E c \in HookCalls :
       pop' = [pop EXCEPT !.ops = {HookOp(c, hist.gestures + 1)}]
  /\ before' = store
  /\ hist' = [hist EXCEPT !.gestures = @ + 1]
  /\ UNCHANGED <<store, nextId, prev>> /\ HookUnchanged

\* The repository method runs from the list it reads to its write, or
\* through the first pass of the delete loop.
HookRun(o, bookmarks) ==
  CASE o.op = "add" -> ReadAdd(o, bookmarks, RandomUUID, now)
    [] o.op = "update" -> ReadUpdate(o, bookmarks, now)
    [] OTHER -> ScanEnd(ScanPass(ReadDelete(o, bookmarks)))

\* The call's read of the list is served.
HookRead ==
  /\ \E o \in pop.ops :
       /\ o.pc = "get"
       /\ pop' = [pop EXCEPT !.ops = {HookRun(o, GetBookmarks)}]
       /\ nextId' = IF o.op = "add" THEN nextId + 1 ELSE nextId
  /\ UNCHANGED <<store, before, prev, hist>> /\ HookUnchanged

\* The call's read fails: StorageService.get logs and returns null, and
\* getBookmarks hands the method the empty list.
HookReadFails ==
  /\ \E o \in pop.ops :
       /\ o.pc = "get"
       /\ pop' = [pop EXCEPT !.ops = {HookRun([o EXCEPT !.readFailed = TRUE], FailOpen)}]
       /\ nextId' = IF o.op = "add" THEN nextId + 1 ELSE nextId
  /\ UNCHANGED <<store, before, prev, hist>> /\ HookUnchanged

\* deleteBookmarkNode: one more pass of the do-while loop.
HookScan ==
  /\ \E o \in pop.ops :
       /\ o.pc = "scan"
       /\ pop' = [pop EXCEPT !.ops = {ScanEnd(ScanPass(o))}]
  /\ UNCHANGED <<store, nextId, before, prev, hist>> /\ HookUnchanged

\* What is remembered of call o when it settles.
SettledAs(o, outcome, ok) ==
  [op |-> o.op, id |-> o.id, ret |-> o.ret, ok |-> ok, list |-> before,
   shown |-> pop.bookmarks, outcome |-> outcome, readFailed |-> o.readFailed,
   error |-> pop.error]

\* The call's write lands (or a delete had nothing to write): the method
\* returns and the hook updates its list.
HookSettle ==
  /\ \E o \in pop.ops :
       /\ o.pc \in {"set", "done"}
       /\ store' = IF o.pc = "set" THEN StorageSet(store, o) ELSE store
       /\ LET r == [o EXCEPT !.ok = (o.pc = "set")]
          IN /\ pop' = [pop EXCEPT !.ops = {}, !.bookmarks = HookAfter(@, r)]
             /\ prev' = SettledAs(o, "resolved", r.ok)
  /\ UNCHANGED <<nextId, before, hist>> /\ HookUnchanged

\* The call's write fails: StorageService.set rethrows, the method rejects,
\* the hook records the error and rethrows.
HookWriteFails ==
  /\ \E o \in pop.ops :
       /\ o.pc = "set"
       /\ pop' = HookCaught([pop EXCEPT !.ops = {}], o)
       /\ prev' = SettledAs(o, "rejected", FALSE)
  /\ UNCHANGED <<store, nextId, before, hist>> /\ HookUnchanged

\* The hook has fetched the stored list at mount.
HookInit ==
  /\ store \in HookLists
  /\ pop = [PopClosed EXCEPT !.open = TRUE, !.bookmarks = store]
  /\ now = 0
  /\ nextId = MaxNodes + 1
  /\ call = Idle
  /\ before = <<>>
  /\ writes = 0
  /\ prev = NoSettled
  /\ rec = NoRec
  /\ hist = NoHist
  /\ cats = <<>>
  /\ settings = SettingsClosed
  /\ catUi = NoCatUi
  /\ clicks = NoClicks

\* What the repository and the store do by themselves when nothing fails.
HookStep == HookRead \/ HookScan \/ HookSettle

HookNext ==
  \/ HookCall \/ HookRead \/ HookReadFails \/ HookScan \/ HookSettle
  \/ HookWriteFails

HookSpec == HookInit /\ [][HookNext]_vars

HookFairSpec == HookSpec /\ WF_vars(HookStep)

\* A call's write has just failed.
WriteFailed == pop.ops = {} /\ prev.outcome = "rejected"

\* C21 (write failure is surfaced and changes nothing): when the write of
\* an add, update or delete has failed, the call is rejected, the stored
\* list is the list stored when the call was made, the hook holds an error
\* message and its list is the list it held before.
C21_WriteFailure ==
  WriteFailed =>
    /\ prev.op \in {"add", "update", "delete"}
    /\ store = prev.list
    /\ pop.bookmarks = prev.shown
    /\ pop.error # "null"

\* C21 witness: the write of a delete of a stored bookmark failed in a hook
\* that held no error before.
C21_Witness ==
  /\ WriteFailed /\ prev.op = "delete" /\ prev.id \in Ids(store)
  /\ prev.error = "null"

\* ===================================================================
\* Restore from backup: validation and conflicts
\* ===================================================================

\* The restores alone, flawed files among those picked.
RestoreInit ==
  /\ store \in { <<>>, <<MkNode(1, "bookmark", Null, 0)>>,
                 <<MkNode(1, "bookmark", Null, 0), MkNode(3, "folder", Null, 0)>> }
  /\ cats \in { <<>>, <<Cat(7, "work")>>, <<Cat(8, "home")>> }
  /\ now = 0
  /\ nextId = 4
  /\ call = Idle
  /\ before = <<>>
  /\ writes = 0
  /\ prev = NoRestore
  /\ pop = PopClosed
  /\ rec = NoRec
  /\ hist = NoHist
  /\ settings = SettingsClosed
  /\ catUi = NoCatUi
  /\ clicks = NoClicks

RestoreNext ==
  \/ HandleRestoreThrows(AnyFiles) \/ HandleRestore(AnyFiles)
  \/ HandleRestoreConflict(AnyFiles) \/ ConflictCancel \/ ConflictContinue
  \/ SettingsReopen

RestoreSpec == RestoreInit /\ [][RestoreNext]_vars

\* A file of the last restore was flawed.
RestoreFailsValidation == prev.op = "restore" /\ prev.flawed

C23_ConflictResolved ==
  /\ (prev.op = "restore" /\ prev.outcome = "awaiting") =>
       prev.wrote = {} /\ prev.kept
  /\ prev.clicked = "cancel" =>
       /\ ~settings.isRestoring
       /\ prev.wrote = {}
       /\ prev.kept
  /\ prev.clicked = "continue" =>
       /\ prev.outcome = "restored"
       /\ "bookmarks" \in prev.wrote \/ "bookmark_categories" \in prev.wrote

\* ===================================================================
\* The two undo buffers
\* ===================================================================

\* The step is a handleDeleteWithUndo(id) of a table row, for a stored
\* bookmark, made while a batch undo is pending.
SupersedingDelete(id) ==
  /\ hist'.act = "single" /\ hist'.actNo = hist.gestures + 1
  /\ hist'.gestures = hist.gestures + 1
  /\ hist'.aimed = {id}
  /\ id \in Ids(store)
  /\ TypeOf(NodeOf(store, id)) = "bookmark"
  /\ pop.undoBatch # NoBatch

\* C24 (a single delete supersedes a pending batch undo): right after
\* handleDeleteWithUndo(id) for a stored bookmark the batch buffer is idle
\* and its timeout cancelled, no node of the batch was put back in the
\* stored list, the single-delete buffer holds exactly that bookmark (the
\* node the popup lists under id) with the expiry now + 5000, and the
\* stored lastDeletedBookmark and undoExpire equal the node and expiry in
\* memory.
C24_SingleSupersedesBatch ==
  [][ \A id \in 1..MaxNodes :
        SupersedingDelete(id) =>
          /\ pop'.undoBatch = NoBatch
          /\ pop.undoBatch.expire \notin pop'.timers
          /\ store' = store
          /\ pop'.lastDeleted = NodeOf(pop.bookmarks, id)
          /\ pop'.undoExpire = now + SingleWindow
          /\ rec'.lastDeletedBookmark = pop'.lastDeleted
          /\ rec'.undoExpire = pop'.undoExpire ]_vars

\* A row was deleted while the batch undo of a merge was pending, and the
\* single-delete buffer holds it.
C24_Witness ==
  /\ hist.act = "single"
  /\ hist.superseded # NoBatch
  /\ pop.lastDeleted # NoNode
  /\ hist.aimed = {pop.lastDeleted.id}
  /\ pop.lastDeleted.id \in Ids(store)
  /\ pop.undoBatch = NoBatch
  /\ rec.lastDeletedBookmark = pop.lastDeleted

\* The step is the countdown finding the single buffer expired.
Expires ==
  /\ pop.lastDeleted # NoNode /\ pop'.lastDeleted = NoNode
  /\ pop'.open /\ pop'.ops = pop.ops /\ pop'.undoBatch = pop.undoBatch

\* The step is the pointer leaving the single-undo toast.
Leaves == hist.hovering.some /\ ~hist'.hovering.some

MaxClicks == 2

\* No file has been exported.
NoFile == [bookmarks |-> <<>>, categories |-> <<>>, bookmarkClicks |-> NoClicks,
           exported |-> FALSE]

\* prev in this section: the latest Quick Action or mutation, and the file
\* the latest Quick Export downloaded.
NoQuick == [op |-> "none", file |-> NoFile]

\* Quick Export: exportData as JSON.parse reads it back. The three values
\* come out of chrome.storage, so they are JSON values and stringify/parse
\* returns them as they are; exportDate and version are never read again.
ExportData(data) ==
  [bookmarks |-> data.bookmarks, categories |-> data.bookmark_categories,
   bookmarkClicks |-> data.bookmarkClicks, exported |-> TRUE]

\* Quick Import: the object handed to chrome.storage.local.set. Both lists
\* of an exported file are arrays.
QuickUpdates(backupData) ==
  [bookmarks |-> backupData.bookmarks,
   bookmark_categories |-> backupData.categories]

QuickUnchanged == UNCHANGED <<now, call, before, writes, pop, rec, hist, settings, catUi>>

\* The Quick Export button: the three keys are read and downloaded.
QuickExport ==
  /\ prev' = [op |-> "export",
              file |-> ExportData([bookmarks |-> store,
                                   bookmark_categories |-> cats,
                                   bookmarkClicks |-> clicks])]
  /\ UNCHANGED <<store, cats, clicks, nextId>> /\ QuickUnchanged

\* Quick Import of the exported file: the stored categories are deleted
\* one by one, the file's categories are added one by one under new ids,
\* and then 'bookmarks' and 'bookmark_categories' are set from the file.
\* 'bookmarkClicks' is not in the object that is set.
QuickImport ==
  /\ prev.file.exported
  /\ nextId + Len(prev.file.categories) <= MaxUuid + 1
  /\ LET updates == QuickUpdates(prev.file)
     IN /\ store' = updates.bookmarks
        /\ cats' = updates.bookmark_categories
  /\ nextId' = nextId + Len(prev.file.categories)
  /\ prev' = [prev EXCEPT !.op = "import"]
  /\ UNCHANGED clicks /\ QuickUnchanged

\* A result of the search overlay is clicked: its title's count goes up.
QuickClick ==
  /\ \E k \in 1..Len(store) :
       /\ TypeOf(store[k]) = "bookmark"
       /\ clicks[store[k].title] < MaxClicks
       /\ clicks' = [clicks EXCEPT ![store[k].title] = @ + 1]
  /\ prev' = [prev EXCEPT !.op = "click"]
  /\ UNCHANGED <<store, cats, nextId>> /\ QuickUnchanged

\* A bookmark or folder is added at the top level.
QuickAdd ==
  /\ nextId <= MaxUuid /\ Len(store) < MaxNodes
  /\ \E draft \in Drafts : store' = Append(store, NewNode(draft, RandomUUID, now))
  /\ nextId' = nextId + 1
  /\ prev' = [prev EXCEPT !.op = "add"]
  /\ UNCHANGED <<cats, clicks>> /\ QuickUnchanged

\* A stored node without children is deleted.
QuickDelete ==
  /\ \E k \in 1..Len(store) : store' = FilterOut(store, {store[k].id})
  /\ prev' = [prev EXCEPT !.op = "delete"]
  /\ UNCHANGED <<cats, clicks, nextId>> /\ QuickUnchanged

\* A stored category is deleted.
QuickDeleteCategory ==
  /\ \E k \in 1..Len(cats) : cats' = WithoutCategory(cats, cats[k].id)
  /\ prev' = [prev EXCEPT !.op = "deleteCategory"]
  /\ UNCHANGED <<store, clicks, nextId>> /\ QuickUnchanged

QuickInit ==
  /\ store \in CatStores
  /\ cats \in CatLists
  /\ now = 0
  /\ nextId = 5
  /\ call = Idle
  /\ before = <<>>
  /\ writes = 0
  /\ prev = NoQuick
  /\ pop = PopClosed
  /\ rec = NoRec
  /\ hist = NoHist
  /\ settings = SettingsClosed
  /\ catUi = NoCatUi
  /\ clicks = NoClicks

QuickNext ==
  \/ QuickExport \/ QuickImport \/ QuickClick \/ QuickAdd \/ QuickDelete
  \/ QuickDeleteCategory

QuickSpec == QuickInit /\ [][QuickNext]_vars

\* C27 (export/import round trip): after a Quick Import of the file the
\* latest Quick Export produced, the stored bookmarks, bookmark_categories
\* and bookmarkClicks are the values they had when the export was taken.
C27_RoundTrip ==
  prev.op = "import" =>
    /\ store = prev.file.bookmarks
    /\ cats = prev.file.categories
    /\ clicks = prev.file.bookmarkClicks

\* An add made through the repository has completed: its write landed.
AddCompleted == pop.ops = {} /\ prev.op = "add" /\ prev.outcome = "resolved"

\* C28 (add never loses existing nodes): when addBookmarkOrFolder has
\* completed, the stored list is the list stored when the call was made
\* with the new node appended, so every node stored before is still stored
\* unchanged, also when the call's read of the list failed and getBookmarks
\* fell back to the empty list.
C28_AddKeepsNodes ==
  AddCompleted =>
    /\ store = Append(prev.list, prev.ret)
    /\ \A k \in 1..Len(prev.list) : store[k] = prev.list[k]

\* A hook call has completed and no other is in flight.
HookCompleted == pop.ops = {} /\ prev.outcome = "resolved"

\* C30 (the hook's list mirrors the store): after every completed add,
\* update or delete of the hook, with no other call in flight, the ids of
\* the nodes in the hook's list are the ids of the nodes in the stored
\* list.
C30_HookMirrorsStore ==
  HookCompleted => Ids(pop.bookmarks) = Ids(store)

\* ===================================================================
\* The single countdown under timer fairness
\* ===================================================================
\* The popup with single deletes only: delete, Undo, the pointer, reopening.
TimerNext ==
  \/ PClickDelete \/ PUndo \/ PTick \/ PMouseEnter \/ PMouseLeave
  \/ PAdvance \/ PReload \/ POpen
  \/ PMountFetch \/ PMountRehydrate \/ POpRead \/ POpSettle

\* Timer fairness: the 200 ms interval fires while it is set, and time
\* passes.
PopupTimerSpec ==
  PopupInit /\ [][TimerNext]_vars /\ WF_vars(PTick) /\ WF_vars(PAdvance)

\* A storage call of the popup is outstanding.
Outstanding == pop.ops # {} \/ pop.mount # {}

\* C29 (every pending single-delete undo is eventually resolved): a
\* single-delete buffer does not stay pending for ever while the pointer is
\* off the toast and no storage call is outstanding: again and again the
\* buffer is empty (restored or expired), the pointer is over the toast or
\* a call is outstanding; also for a buffer created after an earlier one
\* was undone, superseded or removed under the pointer.  (A buffer whose
\* expiry lies beyond the modelled clock is left aside.)
C29_UndoResolves ==
  []<>(\/ pop.lastDeleted = NoNode \/ pop.over \/ Outstanding
       \/ pop.undoExpire > MaxClock)

====
